---- MODULE Spec2Model ----
(***************************************************************************)
(* State-machine model of contracts/DeviceMaintenance.sol: the             *)
(* authorization ledger (owner, authorizedTechnicians) and the record      *)
(* store (devices), with the event log the contract emits and the outcome  *)
(* of the last external call (return data or revert reason).               *)
(***************************************************************************)
EXTENDS Integers, Sequences, FiniteSets, TLC

VARIABLES owner, authorizedTechnicians, devices, events, ret

\* state of the user interface: the wallet connection (useAccount) and the
\* React state of the Index page, of a DeviceCard and of the AdminPanel
VARIABLES account, index, deviceCard, adminPanel

contractVars == <<owner, authorizedTechnicians, devices, events>>
uiVars == <<account, index, deviceCard, adminPanel>>
vars == <<owner, authorizedTechnicians, devices, events, ret,
          account, index, deviceCard, adminPanel>>

(***************************************************************************)
(* Bounds and input samples                                                *)
(***************************************************************************)
\* the event log is append-only; successful transactions stop once it
\* holds MaxEvents entries
MaxEvents == 3

\* address(0)
Zero == "0x0"
Deployer == "0xA"
Technician == "0xB"
Addr == {Zero, Deployer, Technician}
\* a transaction is signed, so its msg.sender is never address(0);
\* an eth_call may carry any sender
TxSenders == Addr \ {Zero}

DeviceIds == {"dev-001", "dev-002"}

\* enum DeviceStatus
Operational == 0
Maintenance == 1
Critical == 2
DeviceStatus == {Operational, Maintenance, Critical}

\* opaque byte strings
Empty == << >>
E1 == <<1>>
E2 == <<2>>
E3 == <<3>>
E4 == <<4>>

\* (name, deviceType, status, lastMaintenance, nextCalibration) of registerDevice
V1 == [name |-> "MRI-X200", deviceType |-> "MRI", status |-> Operational,
       lastMaintenance |-> 10, nextCalibration |-> 40]
V2 == [name |-> "CT-7", deviceType |-> "CT", status |-> Critical,
       lastMaintenance |-> 20, nextCalibration |-> 50]

\* (status, lastMaintenance, nextCalibration) of updateMaintenance
U1 == [status |-> Maintenance, lastMaintenance |-> 30, nextCalibration |-> 60]
U2 == [status |-> Operational, lastMaintenance |-> 10, nextCalibration |-> 40]

\* (encryptedNotes, encryptedCalibration)
Cipher12 == [encryptedNotes |-> E1, encryptedCalibration |-> E2]
Cipher34 == [encryptedNotes |-> E3, encryptedCalibration |-> E4]
NoNotes == [encryptedNotes |-> Empty, encryptedCalibration |-> E2]
NoCalibration == [encryptedNotes |-> E1, encryptedCalibration |-> Empty]

\* sample argument lists of registerDevice and of updateMaintenance
RegisterInputs ==
    {<<V1, Cipher12>>, <<V2, Cipher34>>, <<V1, NoNotes>>, <<V2, NoCalibration>>}
UpdateInputs ==
    {<<U1, Cipher12>>, <<U2, Cipher34>>, <<U1, NoCalibration>>, <<U2, NoNotes>>}

\* block.timestamp
BlockTimes == {1000}

(***************************************************************************)
(* Revert reasons                                                          *)
(***************************************************************************)
ErrOnlyOwner == "Only owner can perform this action"
ErrNotAuthorized == "Not authorized technician"
ErrDeviceExists == "Device already exists"
ErrDeviceMissing == "Device does not exist"
ErrEmptyNotes == "Encrypted notes cannot be empty"
ErrEmptyCalibration == "Encrypted calibration cannot be empty"
ErrInvalidAddress == "Invalid address"
ErrAlreadyAuthorized == "Technician already authorized"
ErrTechNotAuthorized == "Technician not authorized"
NoErr == ""

(***************************************************************************)
(* Storage                                                                 *)
(***************************************************************************)
\* the zero-initialised struct every unwritten key of the mapping reads as
Device ==
    [name |-> "", deviceType |-> "", status |-> Operational,
     lastMaintenance |-> 0, nextCalibration |-> 0,
     encryptedNotes |-> Empty, encryptedCalibration |-> Empty,
     exists |-> FALSE]

\* modifier onlyOwner
onlyOwner_AsAuthorized(sender) ==
    authorizedTechnicians[sender] \/ sender = owner

onlyOwner(sender) == sender = owner

\* modifier onlyAuthorized
onlyAuthorized_NoCheck(sender) == TRUE

onlyAuthorized_TableOnly(sender) == authorizedTechnicians[sender]

onlyAuthorized(sender) == authorizedTechnicians[sender] \/ sender = owner

\* return value of isAuthorized(technician)
isAuthorizedResult_TableOnly(technician) == authorizedTechnicians[technician]

isAuthorizedResult(technician) ==
    authorizedTechnicians[technician] \/ technician = owner

\* outcome of an external call
Ok(op, sender, key, value) ==
    [op |-> op, sender |-> sender, key |-> key, ok |-> TRUE,
     err |-> NoErr, value |-> value]

Revert(op, sender, key, reason) ==
    [op |-> op, sender |-> sender, key |-> key, ok |-> FALSE,
     err |-> reason, value |-> << >>]

\* a reverted call: no storage write, no event
Reverted(op, sender, key, reason) ==
    /\ ret' = Revert(op, sender, key, reason)
    /\ UNCHANGED <<contractVars, uiVars>>

\* a successful view call
Returned(op, sender, key, value) ==
    /\ ret' = Ok(op, sender, key, value)
    /\ UNCHANGED <<contractVars, uiVars>>

(***************************************************************************)
(* Initial state of the user interface                                     *)
(***************************************************************************)
\* useAccount() without a connected wallet
Disconnected == [isConnected |-> FALSE, address |-> ""]
Connected(a) == [isConnected |-> TRUE, address |-> a]

\* the loadDevices calls that may be in flight together
MaxLoads == 2
Loads == 1..MaxLoads

\* a loadDevices call: where it stands, the manualDeviceIds of the render
\* it was called from, the ids it queries, and whether it is the call
\* started last
NoLoad ==
    [pc |-> "idle", manualDeviceIds |-> << >>, allDeviceIds |-> << >>,
     latest |-> FALSE]

\* useState of Index: devices (by deviceId), isLoading, manualDeviceIds;
\* loads are the loadDevices calls in flight; byHand (the ids added by the
\* user and not removed since) and shown (which call wrote devices last)
\* record the history the properties speak about
IndexInit ==
    [devices |-> << >>, isLoading |-> FALSE, manualDeviceIds |-> << >>,
     loads |-> [l \in Loads |-> NoLoad], byHand |-> {}, shown |-> "none"]

\* useState of DeviceCard, the position of a handleDecrypt call in flight and
\* whether the effect on isConnected is still to run
\* address and chainId are those of the render handleDecrypt was called from
null == << >>
DeviceCardInit ==
    [isUnlocked |-> FALSE, isDecrypting |-> FALSE, decryptedNotes |-> null,
     decryptedCalibration |-> null, pc |-> "idle", address |-> "",
     effect |-> FALSE]

\* useState of AdminPanel (technician authorization) and the position of a
\* handleAuthorizeTechnician call in flight with the signer and the
\* technicianAddress of the render it was called from
AdminPanelInit ==
    [technicianAddress |-> "", isAuthorizing |-> FALSE, pc |-> "idle",
     signer |-> "", technician |-> ""]

(***************************************************************************)
(* constructor                                                             *)
(***************************************************************************)
Init ==
    /\ owner = Deployer
    /\ authorizedTechnicians = [a \in Addr |-> a = Deployer]
    /\ devices = [d \in DeviceIds |-> Device]
    /\ events = << >>
    /\ ret = Ok("constructor", Deployer, "", << >>)
    /\ account = Disconnected
    /\ index = IndexInit
    /\ deviceCard = DeviceCardInit
    /\ adminPanel = AdminPanelInit

(***************************************************************************)
(* registerDevice                                                          *)
(***************************************************************************)
RegisteredDevice(v, c) ==
    [name |-> v.name, deviceType |-> v.deviceType, status |-> v.status,
     lastMaintenance |-> v.lastMaintenance,
     nextCalibration |-> v.nextCalibration,
     encryptedNotes |-> c.encryptedNotes,
     encryptedCalibration |-> c.encryptedCalibration,
     exists |-> TRUE]

\* registerDevice without the existence check
registerDevice_NoExistsCheck(sender, deviceId, v, c) ==
    IF ~onlyAuthorized(sender)
    THEN Reverted("registerDevice", sender, deviceId, ErrNotAuthorized)
    ELSE IF ~(Len(c.encryptedNotes) > 0)
    THEN Reverted("registerDevice", sender, deviceId, ErrEmptyNotes)
    ELSE IF ~(Len(c.encryptedCalibration) > 0)
    THEN Reverted("registerDevice", sender, deviceId, ErrEmptyCalibration)
    ELSE /\ Len(events) < MaxEvents
         /\ devices' = [devices EXCEPT ![deviceId] = RegisteredDevice(v, c)]
         /\ events' = Append(events,
                [kind |-> "DeviceRegistered", deviceId |-> deviceId,
                 name |-> v.name, technician |-> sender])
         /\ ret' = Ok("registerDevice", sender, deviceId, v @@ c)
         /\ UNCHANGED <<owner, authorizedTechnicians, uiVars>>

\* registerDevice clearing every other record
registerDevice_ResetsStore(sender, deviceId, v, c) ==
    IF ~onlyAuthorized(sender)
    THEN Reverted("registerDevice", sender, deviceId, ErrNotAuthorized)
    ELSE IF devices[deviceId].exists
    THEN Reverted("registerDevice", sender, deviceId, ErrDeviceExists)
    ELSE IF ~(Len(c.encryptedNotes) > 0)
    THEN Reverted("registerDevice", sender, deviceId, ErrEmptyNotes)
    ELSE IF ~(Len(c.encryptedCalibration) > 0)
    THEN Reverted("registerDevice", sender, deviceId, ErrEmptyCalibration)
    ELSE /\ Len(events) < MaxEvents
         /\ devices' = [d \in DeviceIds |->
                            IF d = deviceId THEN RegisteredDevice(v, c)
                            ELSE Device]
         /\ events' = Append(events,
                [kind |-> "DeviceRegistered", deviceId |-> deviceId,
                 name |-> v.name, technician |-> sender])
         /\ ret' = Ok("registerDevice", sender, deviceId, v @@ c)
         /\ UNCHANGED <<owner, authorizedTechnicians, uiVars>>

registerDevice(sender, deviceId, v, c) ==
    IF ~onlyAuthorized(sender)
    THEN Reverted("registerDevice", sender, deviceId, ErrNotAuthorized)
    ELSE IF devices[deviceId].exists
    THEN Reverted("registerDevice", sender, deviceId, ErrDeviceExists)
    ELSE IF ~(Len(c.encryptedNotes) > 0)
    THEN Reverted("registerDevice", sender, deviceId, ErrEmptyNotes)
    ELSE IF ~(Len(c.encryptedCalibration) > 0)
    THEN Reverted("registerDevice", sender, deviceId, ErrEmptyCalibration)
    ELSE /\ Len(events) < MaxEvents
         /\ devices' = [devices EXCEPT ![deviceId] = RegisteredDevice(v, c)]
         /\ events' = Append(events,
                [kind |-> "DeviceRegistered", deviceId |-> deviceId,
                 name |-> v.name, technician |-> sender])
         /\ ret' = Ok("registerDevice", sender, deviceId, v @@ c)
         /\ UNCHANGED <<owner, authorizedTechnicians, uiVars>>

(***************************************************************************)
(* updateMaintenance                                                       *)
(***************************************************************************)
\* updateMaintenance rebuilding the struct from its arguments
UpdatedDevice_Rebuilds(d, u, c) ==
    [Device EXCEPT !.status = u.status,
                   !.lastMaintenance = u.lastMaintenance,
                   !.nextCalibration = u.nextCalibration,
                   !.encryptedNotes = c.encryptedNotes,
                   !.encryptedCalibration = c.encryptedCalibration]

\* updateMaintenance without the write of nextCalibration
UpdatedDevice_KeepsCalibrationDate(d, u, c) ==
    [d EXCEPT !.status = u.status,
              !.lastMaintenance = u.lastMaintenance,
              !.encryptedNotes = c.encryptedNotes,
              !.encryptedCalibration = c.encryptedCalibration]

UpdatedDevice(d, u, c) ==
    [d EXCEPT !.status = u.status,
              !.lastMaintenance = u.lastMaintenance,
              !.nextCalibration = u.nextCalibration,
              !.encryptedNotes = c.encryptedNotes,
              !.encryptedCalibration = c.encryptedCalibration]

\* updateMaintenance without the check of encryptedCalibration
updateMaintenance_NoCalibrationCheck(sender, deviceId, u, c, timestamp) ==
    IF ~onlyAuthorized(sender)
    THEN Reverted("updateMaintenance", sender, deviceId, ErrNotAuthorized)
    ELSE IF ~devices[deviceId].exists
    THEN Reverted("updateMaintenance", sender, deviceId, ErrDeviceMissing)
    ELSE IF ~(Len(c.encryptedNotes) > 0)
    THEN Reverted("updateMaintenance", sender, deviceId, ErrEmptyNotes)
    ELSE /\ Len(events) < MaxEvents
         /\ devices' = [devices EXCEPT
                ![deviceId] = UpdatedDevice(devices[deviceId], u, c)]
         /\ events' = Append(events,
                [kind |-> "MaintenanceUpdated", deviceId |-> deviceId,
                 technician |-> sender, timestamp |-> timestamp])
         /\ ret' = Ok("updateMaintenance", sender, deviceId, u @@ c)
         /\ UNCHANGED <<owner, authorizedTechnicians, uiVars>>

\* updateMaintenance without the existence check
updateMaintenance_NoExistsCheck(sender, deviceId, u, c, timestamp) ==
    IF ~onlyAuthorized(sender)
    THEN Reverted("updateMaintenance", sender, deviceId, ErrNotAuthorized)
    ELSE IF ~(Len(c.encryptedNotes) > 0)
    THEN Reverted("updateMaintenance", sender, deviceId, ErrEmptyNotes)
    ELSE IF ~(Len(c.encryptedCalibration) > 0)
    THEN Reverted("updateMaintenance", sender, deviceId, ErrEmptyCalibration)
    ELSE /\ Len(events) < MaxEvents
         /\ devices' = [devices EXCEPT
                ![deviceId] = UpdatedDevice(devices[deviceId], u, c)]
         /\ events' = Append(events,
                [kind |-> "MaintenanceUpdated", deviceId |-> deviceId,
                 technician |-> sender, timestamp |-> timestamp])
         /\ ret' = Ok("updateMaintenance", sender, deviceId, u @@ c)
         /\ UNCHANGED <<owner, authorizedTechnicians, uiVars>>

\* updateMaintenance logging the owner as the acting technician
updateMaintenance_EmitsOwner(sender, deviceId, u, c, timestamp) ==
    IF ~onlyAuthorized(sender)
    THEN Reverted("updateMaintenance", sender, deviceId, ErrNotAuthorized)
    ELSE IF ~devices[deviceId].exists
    THEN Reverted("updateMaintenance", sender, deviceId, ErrDeviceMissing)
    ELSE IF ~(Len(c.encryptedNotes) > 0)
    THEN Reverted("updateMaintenance", sender, deviceId, ErrEmptyNotes)
    ELSE IF ~(Len(c.encryptedCalibration) > 0)
    THEN Reverted("updateMaintenance", sender, deviceId, ErrEmptyCalibration)
    ELSE /\ Len(events) < MaxEvents
         /\ devices' = [devices EXCEPT
                ![deviceId] = UpdatedDevice(devices[deviceId], u, c)]
         /\ events' = Append(events,
                [kind |-> "MaintenanceUpdated", deviceId |-> deviceId,
                 technician |-> owner, timestamp |-> timestamp])
         /\ ret' = Ok("updateMaintenance", sender, deviceId, u @@ c)
         /\ UNCHANGED <<owner, authorizedTechnicians, uiVars>>

updateMaintenance(sender, deviceId, u, c, timestamp) ==
    IF ~onlyAuthorized(sender)
    THEN Reverted("updateMaintenance", sender, deviceId, ErrNotAuthorized)
    ELSE IF ~devices[deviceId].exists
    THEN Reverted("updateMaintenance", sender, deviceId, ErrDeviceMissing)
    ELSE IF ~(Len(c.encryptedNotes) > 0)
    THEN Reverted("updateMaintenance", sender, deviceId, ErrEmptyNotes)
    ELSE IF ~(Len(c.encryptedCalibration) > 0)
    THEN Reverted("updateMaintenance", sender, deviceId, ErrEmptyCalibration)
    ELSE /\ Len(events) < MaxEvents
         /\ devices' = [devices EXCEPT
                ![deviceId] = UpdatedDevice(devices[deviceId], u, c)]
         /\ events' = Append(events,
                [kind |-> "MaintenanceUpdated", deviceId |-> deviceId,
                 technician |-> sender, timestamp |-> timestamp])
         /\ ret' = Ok("updateMaintenance", sender, deviceId, u @@ c)
         /\ UNCHANGED <<owner, authorizedTechnicians, uiVars>>

(***************************************************************************)
(* Views                                                                   *)
(***************************************************************************)
DeviceInfo(d) ==
    [name |-> d.name, deviceType |-> d.deviceType, status |-> d.status,
     lastMaintenance |-> d.lastMaintenance,
     nextCalibration |-> d.nextCalibration]

\* getDeviceInfo behind the onlyAuthorized modifier
getDeviceInfo_Gated(sender, deviceId) ==
    IF ~onlyAuthorized(sender)
    THEN Reverted("getDeviceInfo", sender, deviceId, ErrNotAuthorized)
    ELSE IF ~devices[deviceId].exists
    THEN Reverted("getDeviceInfo", sender, deviceId, ErrDeviceMissing)
    ELSE Returned("getDeviceInfo", sender, deviceId,
                  DeviceInfo(devices[deviceId]))

getDeviceInfo(sender, deviceId) ==
    IF ~devices[deviceId].exists
    THEN Reverted("getDeviceInfo", sender, deviceId, ErrDeviceMissing)
    ELSE Returned("getDeviceInfo", sender, deviceId,
                  DeviceInfo(devices[deviceId]))

\* getEncryptedRecords returning the two fields in the other order
EncryptedRecords_Swapped(d) ==
    [encryptedNotes |-> d.encryptedCalibration,
     encryptedCalibration |-> d.encryptedNotes]

EncryptedRecords(d) ==
    [encryptedNotes |-> d.encryptedNotes,
     encryptedCalibration |-> d.encryptedCalibration]

\* getEncryptedRecords checking the record before the caller
getEncryptedRecords_ExistsFirst(sender, deviceId) ==
    IF ~devices[deviceId].exists
    THEN Reverted("getEncryptedRecords", sender, deviceId, ErrDeviceMissing)
    ELSE IF ~onlyAuthorized(sender)
    THEN Reverted("getEncryptedRecords", sender, deviceId, ErrNotAuthorized)
    ELSE Returned("getEncryptedRecords", sender, deviceId,
                  EncryptedRecords(devices[deviceId]))

getEncryptedRecords(sender, deviceId) ==
    IF ~onlyAuthorized(sender)
    THEN Reverted("getEncryptedRecords", sender, deviceId, ErrNotAuthorized)
    ELSE IF ~devices[deviceId].exists
    THEN Reverted("getEncryptedRecords", sender, deviceId, ErrDeviceMissing)
    ELSE Returned("getEncryptedRecords", sender, deviceId,
                  EncryptedRecords(devices[deviceId]))

isAuthorized(sender, technician) ==
    Returned("isAuthorized", sender, technician,
             isAuthorizedResult(technician))

\* getter the compiler generates for `mapping(string => Device) public
\* devices`: every member of the struct, no modifier
DevicesGetter(d) == d

devicesGetter(sender, deviceId) ==
    Returned("devices", sender, deviceId, DevicesGetter(devices[deviceId]))

\* getter of `mapping(address => bool) public authorizedTechnicians`
authorizedTechniciansGetter(sender, a) ==
    Returned("authorizedTechnicians", sender, a, authorizedTechnicians[a])

\* getter of `address public owner`
ownerGetter(sender) ==
    Returned("owner", sender, "", owner)

(***************************************************************************)
(* authorizeTechnician / revokeTechnician                                  *)
(***************************************************************************)
\* authorizeTechnician writing the owner slot instead of the table
authorizeTechnician_SetsOwner(sender, technician) ==
    IF ~onlyOwner(sender)
    THEN Reverted("authorizeTechnician", sender, technician, ErrOnlyOwner)
    ELSE IF ~(technician # Zero)
    THEN Reverted("authorizeTechnician", sender, technician, ErrInvalidAddress)
    ELSE IF authorizedTechnicians[technician]
    THEN Reverted("authorizeTechnician", sender, technician,
                  ErrAlreadyAuthorized)
    ELSE /\ Len(events) < MaxEvents
         /\ owner' = technician
         /\ events' = Append(events,
                [kind |-> "TechnicianAuthorized", technician |-> technician,
                 by |-> sender])
         /\ ret' = Ok("authorizeTechnician", sender, technician, << >>)
         /\ UNCHANGED <<authorizedTechnicians, devices, uiVars>>

\* authorizeTechnician without the already-authorized check
authorizeTechnician_NoDuplicateCheck(sender, technician) ==
    IF ~onlyOwner(sender)
    THEN Reverted("authorizeTechnician", sender, technician, ErrOnlyOwner)
    ELSE IF ~(technician # Zero)
    THEN Reverted("authorizeTechnician", sender, technician, ErrInvalidAddress)
    ELSE /\ Len(events) < MaxEvents
         /\ authorizedTechnicians' =
                [authorizedTechnicians EXCEPT ![technician] = TRUE]
         /\ events' = Append(events,
                [kind |-> "TechnicianAuthorized", technician |-> technician,
                 by |-> sender])
         /\ ret' = Ok("authorizeTechnician", sender, technician, << >>)
         /\ UNCHANGED <<owner, devices, uiVars>>

authorizeTechnician(sender, technician) ==
    IF ~onlyOwner(sender)
    THEN Reverted("authorizeTechnician", sender, technician, ErrOnlyOwner)
    ELSE IF ~(technician # Zero)
    THEN Reverted("authorizeTechnician", sender, technician, ErrInvalidAddress)
    ELSE IF authorizedTechnicians[technician]
    THEN Reverted("authorizeTechnician", sender, technician,
                  ErrAlreadyAuthorized)
    ELSE /\ Len(events) < MaxEvents
         /\ authorizedTechnicians' =
                [authorizedTechnicians EXCEPT ![technician] = TRUE]
         /\ events' = Append(events,
                [kind |-> "TechnicianAuthorized", technician |-> technician,
                 by |-> sender])
         /\ ret' = Ok("authorizeTechnician", sender, technician, << >>)
         /\ UNCHANGED <<owner, devices, uiVars>>

\* revokeTechnician clearing the entry of msg.sender instead of the target
revokeTechnician_ClearsSender(sender, technician) ==
    IF ~onlyOwner(sender)
    THEN Reverted("revokeTechnician", sender, technician, ErrOnlyOwner)
    ELSE IF ~authorizedTechnicians[technician]
    THEN Reverted("revokeTechnician", sender, technician, ErrTechNotAuthorized)
    ELSE /\ Len(events) < MaxEvents
         /\ authorizedTechnicians' =
                [authorizedTechnicians EXCEPT ![sender] = FALSE]
         /\ events' = Append(events,
                [kind |-> "TechnicianRevoked", technician |-> technician,
                 by |-> sender])
         /\ ret' = Ok("revokeTechnician", sender, technician, << >>)
         /\ UNCHANGED <<owner, devices, uiVars>>

revokeTechnician(sender, technician) ==
    IF ~onlyOwner(sender)
    THEN Reverted("revokeTechnician", sender, technician, ErrOnlyOwner)
    ELSE IF ~authorizedTechnicians[technician]
    THEN Reverted("revokeTechnician", sender, technician, ErrTechNotAuthorized)
    ELSE /\ Len(events) < MaxEvents
         /\ authorizedTechnicians' =
                [authorizedTechnicians EXCEPT ![technician] = FALSE]
         /\ events' = Append(events,
                [kind |-> "TechnicianRevoked", technician |-> technician,
                 by |-> sender])
         /\ ret' = Ok("revokeTechnician", sender, technician, << >>)
         /\ UNCHANGED <<owner, devices, uiVars>>

(***************************************************************************)
(* Specification                                                           *)
(***************************************************************************)
Next ==
    \/ \E s \in TxSenders, id \in DeviceIds, a \in RegisterInputs :
            registerDevice(s, id, a[1], a[2])
    \/ \E s \in TxSenders, id \in DeviceIds, a \in UpdateInputs,
          t \in BlockTimes :
            updateMaintenance(s, id, a[1], a[2], t)
    \/ \E s \in Addr, id \in DeviceIds : getDeviceInfo(s, id)
    \/ \E s \in Addr, id \in DeviceIds : getEncryptedRecords(s, id)
    \/ \E s \in Addr, a \in Addr : isAuthorized(s, a)
    \/ \E s \in Addr, id \in DeviceIds : devicesGetter(s, id)
    \/ \E s \in Addr, a \in Addr : authorizedTechniciansGetter(s, a)
    \/ \E s \in Addr : ownerGetter(s)
    \/ \E s \in TxSenders, a \in Addr : authorizeTechnician(s, a)
    \/ \E s \in TxSenders, a \in Addr : revokeTechnician(s, a)

Spec == Init /\ [][Next]_vars

(***************************************************************************)
(* utils/crypto.ts                                                         *)
(*                                                                         *)
(* A string is the sequence of its Unicode code points, a byte array a     *)
(* sequence of 0..255.                                                     *)
(***************************************************************************)
Colon == 58
CharZero == 48
CharX == 120
ReplacementChar == 65533
ByteOrderMark == 65279

RECURSIVE SumSeq(_)
SumSeq(q) == IF q = << >> THEN 0 ELSE Head(q) + SumSeq(Tail(q))

\* bytes.slice(from) / str.slice(from), 0-based
SliceFrom(q, from) == SubSeq(q, from + 1, Len(q))

\* str.startsWith('0x')
StartsWith0x(str) == Len(str) >= 2 /\ str[1] = CharZero /\ str[2] = CharX

\* str.toLowerCase() on the ASCII letters
toLowerCase(str) ==
    [i \in 1..Len(str) |->
        IF str[i] \in 65..90 THEN str[i] + 32 ELSE str[i]]

\* n.toString() of a non-negative integer
RECURSIVE toString(_)
toString(n) ==
    IF n < 10 THEN <<CharZero + n>>
    ELSE toString(n \div 10) \o <<CharZero + (n % 10)>>

\* b.toString(16) of one nibble
HexChar_UpperCase(d) == IF d < 10 THEN CharZero + d ELSE 55 + d

HexChar(d) == IF d < 10 THEN CharZero + d ELSE 87 + d

\* value of a hexadecimal digit, -1 for any other character
HexVal(ch) ==
    IF ch \in 48..57 THEN ch - 48
    ELSE IF ch \in 97..102 THEN ch - 87
    ELSE IF ch \in 65..70 THEN ch - 55
    ELSE -1

\* (parseInt(two, 16)) stored into a Uint8Array element: the longest prefix
\* of hexadecimal digits is parsed, NaN is stored as 0
ParseHexByte(two) ==
    IF Len(two) = 0 \/ HexVal(two[1]) = -1 THEN 0
    ELSE IF Len(two) = 1 \/ HexVal(two[2]) = -1 THEN HexVal(two[1])
    ELSE 16 * HexVal(two[1]) + HexVal(two[2])

hexToBytes(hex) ==
    LET n == IF StartsWith0x(hex) THEN SliceFrom(hex, 2) ELSE hex
    IN  [i \in 1..(Len(n) \div 2) |-> ParseHexByte(SubSeq(n, 2 * i - 1, 2 * i))]

bytesToHex(bytes) ==
    [i \in 1..(2 * Len(bytes)) |->
        IF i % 2 = 1 THEN HexChar(bytes[(i + 1) \div 2] \div 16)
        ELSE HexChar(bytes[i \div 2] % 16)]

\* the UTF-8 bytes of one code point; a lone surrogate is encoded as U+FFFD
EncodeCodePoint(cp) ==
    LET c == IF cp \in 55296..57343 THEN ReplacementChar ELSE cp
    IN  IF c < 128 THEN <<c>>
        ELSE IF c < 2048 THEN <<192 + (c \div 64), 128 + (c % 64)>>
        ELSE IF c < 65536
        THEN <<224 + (c \div 4096), 128 + ((c \div 64) % 64), 128 + (c % 64)>>
        ELSE <<240 + (c \div 262144), 128 + ((c \div 4096) % 64),
               128 + ((c \div 64) % 64), 128 + (c % 64)>>

\* new TextEncoder().encode(str)
\* (the code points are encoded one by one and the pieces concatenated; the
\* string is split in halves so that the evaluation stays shallow)
RECURSIVE stringToArrayBuffer(_)
stringToArrayBuffer(str) ==
    IF str = << >> THEN << >>
    ELSE IF Len(str) = 1 THEN EncodeCodePoint(Head(str))
    ELSE LET half == Len(str) \div 2
         IN  stringToArrayBuffer(SubSeq(str, 1, half))
                 \o stringToArrayBuffer(SubSeq(str, half + 1, Len(str)))

IsContinuation(b) == b \in 128..191

\* UTF-8 decoding without the byte order mark handling; a byte that starts
\* no well-formed sequence decodes to U+FFFD
RECURSIVE Utf8Decode(_)
Utf8Decode(b) ==
    IF b = << >> THEN << >>
    ELSE IF b[1] < 128 THEN <<b[1]>> \o Utf8Decode(Tail(b))
    ELSE IF /\ b[1] \in 194..223 /\ Len(b) >= 2 /\ IsContinuation(b[2])
    THEN <<(b[1] - 192) * 64 + (b[2] - 128)>> \o Utf8Decode(SliceFrom(b, 2))
    ELSE IF /\ b[1] \in 224..239 /\ Len(b) >= 3
            /\ IsContinuation(b[2]) /\ IsContinuation(b[3])
            /\ (b[1] - 224) * 4096 + (b[2] - 128) * 64 + (b[3] - 128)
                  \in (2048..55295) \cup (57344..65535)
    THEN <<(b[1] - 224) * 4096 + (b[2] - 128) * 64 + (b[3] - 128)>>
            \o Utf8Decode(SliceFrom(b, 3))
    ELSE IF /\ b[1] \in 240..244 /\ Len(b) >= 4
            /\ IsContinuation(b[2]) /\ IsContinuation(b[3])
            /\ IsContinuation(b[4])
            /\ (b[1] - 240) * 262144 + (b[2] - 128) * 4096
                  + (b[3] - 128) * 64 + (b[4] - 128) \in 65536..1114111
    THEN <<(b[1] - 240) * 262144 + (b[2] - 128) * 4096
              + (b[3] - 128) * 64 + (b[4] - 128)>>
            \o Utf8Decode(SliceFrom(b, 4))
    ELSE <<ReplacementChar>> \o Utf8Decode(Tail(b))

\* new TextDecoder().decode(buffer): the decoder is built with the default
\* options, so a leading byte order mark is removed from the output
arrayBufferToString(buffer) ==
    LET str == Utf8Decode(buffer)
    IN  IF str # << >> /\ str[1] = ByteOrderMark THEN Tail(str) ELSE str

\* PBKDF2 parameters of deriveKeyFromAddress
Salt == "secure-device-maintenance-salt"
Iterations == 1000
KeyLength == 256

\* the derived key, as the inputs PBKDF2 computes it from: two keys are equal
\* exactly when the key material is
deriveKeyFromAddress_KeepsCase(address, chainId) ==
    LET normalizedAddress ==
            IF StartsWith0x(address) THEN SliceFrom(address, 2) ELSE address
        keyMaterial == normalizedAddress \o toString(chainId)
    IN  [name |-> "AES-GCM", length |-> KeyLength, kdf |-> "PBKDF2",
         hash |-> "SHA-256", salt |-> Salt, iterations |-> Iterations,
         keyMaterial |-> stringToArrayBuffer(keyMaterial)]

deriveKeyFromAddress(address, chainId) ==
    LET lower == toLowerCase(address)
        normalizedAddress ==
            IF StartsWith0x(lower) THEN SliceFrom(lower, 2) ELSE lower
        keyMaterial == normalizedAddress \o toString(chainId)
    IN  [name |-> "AES-GCM", length |-> KeyLength, kdf |-> "PBKDF2",
         hash |-> "SHA-256", salt |-> Salt, iterations |-> Iterations,
         keyMaterial |-> stringToArrayBuffer(keyMaterial)]

\* AES-GCM of the Web Crypto API, abstracted: the body is the plaintext
\* masked by a stream that depends on key and iv, followed by a tag of
\* TagLength bytes that depends on key, iv and body; decryption recomputes
\* the tag and rejects (OperationError) when it differs
IvLength == 12
TagLength == 16

\* The mixing function: each byte adds itself to m times the digest of the
\* bytes after it, modulo 65521, starting from 7 after the last byte.  That
\* is the polynomial q[1] + q[2]*m + ... + q[n]*m^(n-1) + 7*m^n, which is
\* computed here by halving so that the evaluation stays shallow, with
\* products kept inside 32 bits.
MixModulus == 65521

MulMod(a, b) ==
    ((((a * (b \div 256)) % MixModulus) * 256) + a * (b % 256)) % MixModulus

RECURSIVE PowMod(_, _)
PowMod(m, n) ==
    IF n = 0 THEN 1
    ELSE LET root == PowMod(m, n \div 2)
             square == MulMod(root, root)
         IN  IF n % 2 = 0 THEN square ELSE MulMod(square, m % MixModulus)

RECURSIVE MixPolynomial(_, _)
MixPolynomial(q, m) ==
    IF q = << >> THEN 0
    ELSE IF Len(q) = 1 THEN Head(q) % MixModulus
    ELSE LET half == Len(q) \div 2
         IN  (MixPolynomial(SubSeq(q, 1, half), m)
                + MulMod(PowMod(m, half),
                         MixPolynomial(SubSeq(q, half + 1, Len(q)), m)))
             % MixModulus

DigestWith(q, m) ==
    IF q = << >> THEN 7
    ELSE (MixPolynomial(q, m) + MulMod(PowMod(m, Len(q)), 7)) % MixModulus

Digest(q) == DigestWith(q, 31)

KeyStream(key, iv, i) == (Digest(key.keyMaterial) + Digest(iv) + i) % 256

AesGcmTag(key, iv, body) ==
    [j \in 1..TagLength |->
        DigestWith(<<Len(iv), Len(body)>> \o key.keyMaterial \o iv \o body,
                   29 + 2 * j) % 256]

\* crypto.subtle.encrypt({name: 'AES-GCM', iv}, key, data)
AesGcmEncrypt(key, iv, data) ==
    LET body == [i \in 1..Len(data) |->
                    (data[i] + KeyStream(key, iv, i)) % 256]
    IN  body \o AesGcmTag(key, iv, body)

\* crypto.subtle.decrypt({name: 'AES-GCM', iv}, key, data)
AesGcmDecrypt(key, iv, data) ==
    IF Len(data) < TagLength \/ Len(iv) = 0
    THEN [ok |-> FALSE, value |-> << >>]
    ELSE LET body == SubSeq(data, 1, Len(data) - TagLength)
             tag == SliceFrom(data, Len(data) - TagLength)
         IN  IF tag # AesGcmTag(key, iv, body)
             THEN [ok |-> FALSE, value |-> << >>]
             ELSE [ok |-> TRUE,
                   value |-> [i \in 1..Len(body) |->
                       (body[i] + 256 - KeyStream(key, iv, i)) % 256]]

\* errors decryptString throws
ErrMissingSeparator ==
    "Decryption failed: Invalid encrypted data format: missing IV separator"
ErrExpectedTwoParts ==
    "Decryption failed: Invalid encrypted data format: expected iv:encryptedData"
ErrOperation == "Decryption failed: OperationError"
DecryptionErrors == {ErrMissingSeparator, ErrExpectedTwoParts, ErrOperation}

Thrown(reason) == [ok |-> FALSE, err |-> reason, value |-> << >>]
Resolved(value) == [ok |-> TRUE, err |-> NoErr, value |-> value]

\* encryptString(plaintext, address, chainId); iv is the value
\* crypto.getRandomValues returns
encryptString_NonceFromPlaintext(plaintext, address, chainId, iv) ==
    LET key == deriveKeyFromAddress(address, chainId)
        plaintextBuffer == stringToArrayBuffer(plaintext)
        nonce == [i \in 1..IvLength |-> (Digest(plaintextBuffer) + i) % 256]
        encrypted == AesGcmEncrypt(key, nonce, plaintextBuffer)
    IN  bytesToHex(nonce) \o <<Colon>> \o bytesToHex(encrypted)

encryptString(plaintext, address, chainId, iv) ==
    LET key == deriveKeyFromAddress(address, chainId)
        plaintextBuffer == stringToArrayBuffer(plaintext)
        encrypted == AesGcmEncrypt(key, iv, plaintextBuffer)
    IN  bytesToHex(iv) \o <<Colon>> \o bytesToHex(encrypted)

\* positions of the separator in str
Separators(str) == {i \in 1..Len(str) : str[i] = Colon}

decryptString_SwallowsFailure(encryptedData, address, chainId) ==
    IF Separators(encryptedData) = {}
    THEN Thrown(ErrMissingSeparator)
    ELSE IF Cardinality(Separators(encryptedData)) + 1 # 2
    THEN Thrown(ErrExpectedTwoParts)
    ELSE LET at == CHOOSE i \in Separators(encryptedData) : TRUE
             ivHex == SubSeq(encryptedData, 1, at - 1)
             encryptedHex == SliceFrom(encryptedData, at)
             iv == hexToBytes(ivHex)
             encryptedBytes == hexToBytes(encryptedHex)
             key == deriveKeyFromAddress(address, chainId)
             decrypted == AesGcmDecrypt(key, iv, encryptedBytes)
         IN  IF ~decrypted.ok THEN Resolved(<< >>)
             ELSE Resolved(arrayBufferToString(decrypted.value))

decryptString(encryptedData, address, chainId) ==
    IF Separators(encryptedData) = {}
    THEN Thrown(ErrMissingSeparator)
    ELSE IF Cardinality(Separators(encryptedData)) + 1 # 2
    THEN Thrown(ErrExpectedTwoParts)
    ELSE LET at == CHOOSE i \in Separators(encryptedData) : TRUE
             ivHex == SubSeq(encryptedData, 1, at - 1)
             encryptedHex == SliceFrom(encryptedData, at)
             iv == hexToBytes(ivHex)
             encryptedBytes == hexToBytes(encryptedHex)
             key == deriveKeyFromAddress(address, chainId)
             decrypted == AesGcmDecrypt(key, iv, encryptedBytes)
         IN  IF ~decrypted.ok THEN Thrown(ErrOperation)
             ELSE Resolved(arrayBufferToString(decrypted.value))

\* encryptedStringToBytes(encryptedData): the first separator is removed
encryptedStringToBytes(encryptedData) ==
    LET at == IF Separators(encryptedData) = {} THEN 0
              ELSE CHOOSE i \in Separators(encryptedData) :
                      \A j \in Separators(encryptedData) : i <= j
    IN  hexToBytes(IF at = 0 THEN encryptedData
                   ELSE SubSeq(encryptedData, 1, at - 1)
                            \o SliceFrom(encryptedData, at))

\* bytesToEncryptedString(bytes), ivLength at its default
\* bytesToEncryptedString cutting the bytes after 16 instead of ivLength
bytesToEncryptedString_SplitsAtTag(bytes) ==
    LET iv == SubSeq(bytes, 1, IF Len(bytes) < TagLength THEN Len(bytes)
                               ELSE TagLength)
        encrypted == SliceFrom(bytes, TagLength)
    IN  bytesToHex(iv) \o <<Colon>> \o bytesToHex(encrypted)

bytesToEncryptedString(bytes) ==
    LET iv == SubSeq(bytes, 1, IF Len(bytes) < IvLength THEN Len(bytes)
                               ELSE IvLength)
        encrypted == SliceFrom(bytes, IvLength)
    IN  bytesToHex(iv) \o <<Colon>> \o bytesToHex(encrypted)

\* ethers.toUtf8Bytes(str)
toUtf8Bytes(str) == stringToArrayBuffer(str)

(***************************************************************************)
(* ui/src/hooks/useDeviceContract.ts                                       *)
(***************************************************************************)
\* `address` of useAccount() for each account: "0xA1" and "0xb2"
AddressString(a) ==
    CASE a = Deployer -> <<48, 120, 65, 49>>
      [] a = Technician -> <<48, 120, 98, 50>>
      [] OTHER -> <<48, 120, 48, 48>>

\* `chainId` of useAccount()
ChainIds == {1, 31337}

\* (account, chainId) of the connected wallet
Sessions == {<<Deployer, 31337>>, <<Technician, 31337>>, <<Technician, 1>>}

\* plaintexts: "", "ok", "n", two multi-byte strings, and "n" behind U+FEFF
NoText == << >>
TextOk == <<111, 107>>
TextN == <<110>>
TextAccents == <<233, 8364>>
TextEmoji == <<128512>>
TextMarked == <<ByteOrderMark, 110>>
Plaintexts == {NoText, TextOk, TextAccents, TextEmoji, TextMarked}

\* values of crypto.getRandomValues(new Uint8Array(12))
IvA == [i \in 1..IvLength |-> i]
IvB == [i \in 1..IvLength |-> 16 * i + 3]
Ivs == {IvA, IvB}

\* (notes, calibration, iv of the notes, iv of the calibration)
NotesInputs ==
    {<<TextOk, NoText, IvA, IvB>>, <<TextAccents, TextEmoji, IvB, IvA>>}

\* Math.floor(Date.now() / 1000)
ClockTimes == {1000}
ThirtyDays == 30 * 24 * 60 * 60

\* a hook returned null
ReturnedNull == [ok |-> FALSE, err |-> "null", value |-> << >>]

\* outcome of a hook or crypto call, in the shape of ret
Outcome(op, sender, key, r) ==
    [op |-> op, sender |-> sender, key |-> key, ok |-> r.ok,
     err |-> r.err, value |-> r.value]

\* (notesBytes, calibrationBytes) the hook passes to the contract
EncryptedArguments(address, chainId, notes, calibration, iv1, iv2) ==
    LET encryptedNotes ==
            encryptString(notes, AddressString(address), chainId, iv1)
        encryptedCalibration ==
            encryptString(calibration, AddressString(address), chainId, iv2)
    IN  [encryptedNotes |-> toUtf8Bytes(encryptedNotes),
         encryptedCalibration |-> toUtf8Bytes(encryptedCalibration)]

useDeviceContract_registerDevice(address, chainId, deviceId, name, deviceType, status, notes, calibration, iv1, iv2, now) ==
    registerDevice(address, deviceId,
        [name |-> name, deviceType |-> deviceType, status |-> status,
         lastMaintenance |-> now, nextCalibration |-> now + ThirtyDays],
        EncryptedArguments(address, chainId, notes, calibration, iv1, iv2))

useDeviceContract_updateMaintenance(address, chainId, deviceId, status, notes, calibration, iv1, iv2, now, timestamp) ==
    updateMaintenance(address, deviceId,
        [status |-> status, lastMaintenance |-> now,
         nextCalibration |-> now + ThirtyDays],
        EncryptedArguments(address, chainId, notes, calibration, iv1, iv2),
        timestamp)

\* what the hook's getEncryptedRecords returns: the contract call is made
\* as `address`, and a reverted call is caught and turned into null
EncryptedStrings(address, deviceId) ==
    IF ~onlyAuthorized(address) \/ ~devices[deviceId].exists
    THEN ReturnedNull
    ELSE LET records == EncryptedRecords(devices[deviceId])
             notesBytesArray == records.encryptedNotes
             calibrationBytesArray == records.encryptedCalibration
         IN  Resolved(
                [encryptedNotes |-> bytesToEncryptedString(notesBytesArray),
                 encryptedCalibration |->
                    bytesToEncryptedString(calibrationBytesArray)])

useDeviceContract_getEncryptedRecords(address, deviceId) ==
    /\ ret' = Outcome("useDeviceContract.getEncryptedRecords", address,
                      deviceId, EncryptedStrings(address, deviceId))
    /\ UNCHANGED <<contractVars, uiVars>>

\* what decryptDeviceRecords returns
DecryptedRecords(address, chainId, deviceId) ==
    LET encrypted == EncryptedStrings(address, deviceId)
    IN  IF ~encrypted.ok THEN ReturnedNull
        ELSE LET notes == decryptString(encrypted.value.encryptedNotes,
                              AddressString(address), chainId)
                 calibration ==
                      decryptString(encrypted.value.encryptedCalibration,
                              AddressString(address), chainId)
             IN  IF ~notes.ok \/ ~calibration.ok THEN ReturnedNull
                 ELSE Resolved([notes |-> notes.value,
                                calibration |-> calibration.value])

decryptDeviceRecords(address, chainId, deviceId) ==
    /\ ret' = Outcome("decryptDeviceRecords", address, deviceId,
                      DecryptedRecords(address, chainId, deviceId))
    /\ UNCHANGED <<contractVars, uiVars>>

ClientNext ==
    \/ \E w \in Sessions, id \in DeviceIds, n \in NotesInputs,
          now \in ClockTimes :
            useDeviceContract_registerDevice(w[1], w[2], id, V1.name,
                V1.deviceType, V1.status, n[1], n[2], n[3], n[4], now)
    \/ \E w \in Sessions, id \in DeviceIds, n \in NotesInputs,
          now \in ClockTimes, t \in BlockTimes :
            useDeviceContract_updateMaintenance(w[1], w[2], id, U1.status,
                n[1], n[2], n[3], n[4], now, t)
    \/ \E w \in Sessions, id \in DeviceIds :
            useDeviceContract_getEncryptedRecords(w[1], id)
    \/ \E w \in Sessions, id \in DeviceIds :
            decryptDeviceRecords(w[1], w[2], id)
    \/ \E s \in TxSenders : authorizeTechnician(s, Technician)

ClientSpec == Init /\ [][ClientNext]_vars

(***************************************************************************)
(* encryptString and decryptString applied to sample inputs                *)
(***************************************************************************)
\* a call of encryptString; the outcome records the arguments
EncryptStep(wallet, plaintext, chainId, iv) ==
    /\ ret' = Outcome("encryptString", wallet, "",
                Resolved([plaintext |-> plaintext, chainId |-> chainId,
                          iv |-> iv,
                          envelope |-> encryptString(plaintext,
                              AddressString(wallet), chainId, iv)]))
    /\ UNCHANGED <<contractVars, uiVars>>

\* a call of decryptString on the envelope the preceding encryptString
\* produced; the outcome records the arguments of both calls
DecryptStep(wallet, chainId) ==
    /\ ret.op = "encryptString"
    /\ LET r == decryptString(ret.value.envelope, AddressString(wallet),
                              chainId)
       IN  ret' = Outcome("decryptString", wallet, "",
                    [ok |-> r.ok, err |-> r.err,
                     value |-> [encryptedBy |-> ret.sender,
                                encryptedOn |-> ret.value.chainId,
                                plaintext |-> ret.value.plaintext,
                                encryptedData |-> ret.value.envelope,
                                chainId |-> chainId,
                                decrypted |-> r.value]])
    /\ UNCHANGED <<contractVars, uiVars>>

\* characters written over one character of an envelope, or appended to it:
\* '0', ':', 'A', 'g', 'x'
OtherChars == {48, 58, 65, 103, 120}

\* positions of an envelope that are written over: in the nonce, the
\* separator, in the body, and one past the end (the character is appended)
Positions(envelope) ==
    {1, 2, 19, 20, 2 * IvLength + 1, 2 * IvLength + 2, Len(envelope),
     Len(envelope) + 1}

Altered(envelope, at, ch) ==
    IF at = Len(envelope) + 1 THEN Append(envelope, ch)
    ELSE [envelope EXCEPT ![at] = ch]

\* a call of decryptString, with the address and chain id of the preceding
\* encryptString, on the envelope it produced with one character changed
AlteredDecryptStep(ch) ==
    /\ ret.op = "encryptString"
    /\ \E at \in Positions(ret.value.envelope) :
       /\ at <= Len(ret.value.envelope) => ret.value.envelope[at] # ch
       /\ LET encryptedData == Altered(ret.value.envelope, at, ch)
              r == decryptString(encryptedData, AddressString(ret.sender),
                                 ret.value.chainId)
          IN  ret' = Outcome("decryptString(altered)", ret.sender, "",
                       [ok |-> r.ok, err |-> r.err,
                        value |-> [plaintext |-> ret.value.plaintext,
                                   envelope |-> ret.value.envelope,
                                   at |-> at,
                                   encryptedData |-> encryptedData,
                                   chainId |-> ret.value.chainId,
                                   decrypted |-> r.value]])
    /\ UNCHANGED <<contractVars, uiVars>>

CipherNext ==
    \/ \E a \in TxSenders, p \in Plaintexts, c \in ChainIds, iv \in Ivs :
            EncryptStep(a, p, c, iv)
    \/ \E a \in TxSenders, c \in ChainIds : DecryptStep(a, c)
    \/ \E ch \in OtherChars : AlteredDecryptStep(ch)

CipherSpec == Init /\ [][CipherNext]_vars

(***************************************************************************)
(* deriveKeyFromAddress applied to sample inputs                           *)
(***************************************************************************)
\* "0xA1", "0xa1", "0XA1", "A1", "a1", "0xb2", "0xa12", "" and "0xzz"
AddressInputs ==
    {<<48, 120, 65, 49>>, <<48, 120, 97, 49>>, <<48, 88, 65, 49>>,
     <<65, 49>>, <<97, 49>>, <<48, 120, 98, 50>>,
     <<48, 120, 97, 49, 50>>, << >>, <<48, 120, 122, 122>>}

NetworkIds == {1, 3, 23, 31337}

\* a call of deriveKeyFromAddress; the outcome records the arguments, the
\* key, and the same of the call before it
DeriveStep(address, chainId) ==
    /\ ret' = Outcome("deriveKeyFromAddress", "", "",
                Resolved([address |-> address, chainId |-> chainId,
                          key |-> deriveKeyFromAddress(address, chainId),
                          before |->
                            IF ret.op = "deriveKeyFromAddress"
                            THEN <<[address |-> ret.value.address,
                                    chainId |-> ret.value.chainId,
                                    key |-> ret.value.key]>>
                            ELSE << >>]))
    /\ UNCHANGED <<contractVars, uiVars>>

KeyNext == \E a \in AddressInputs, n \in NetworkIds : DeriveStep(a, n)

KeySpec == Init /\ [][KeyNext]_vars

(***************************************************************************)
(* getAllDeviceIds (useDeviceContract.ts) and loadDevices (Index.tsx)      *)
(***************************************************************************)
MAX_BLOCKS_PER_QUERY == 1000

\* DeviceRegistered logs of the chain: (block, args.deviceId); an entry
\* whose deviceId is "" stands for a log without a usable deviceId argument
NoLogs == << >>
LogsTwoDevices ==
    <<[block |-> 5, deviceId |-> "dev-001"],
      [block |-> 1200, deviceId |-> "dev-001"],
      [block |-> 1300, deviceId |-> "dev-002"]>>
LogsUnparsed ==
    <<[block |-> 700, deviceId |-> ""],
      [block |-> 800, deviceId |-> "dev-002"]>>
LogSamples == {NoLogs, LogsTwoDevices, LogsUnparsed}

\* what the calls made by getAllDeviceIds meet: whether the configured
\* address validates, whether a public client exists, whether
\* getBlockNumber, getLogs and queryFilter succeed, the current block and
\* the logs of the chain
Environments ==
    [addressValid : BOOLEAN, publicClient : BOOLEAN,
     blockNumberOk : BOOLEAN, getLogsOk : BOOLEAN, queryFilterOk : BOOLEAN,
     currentBlock : {900, 1500}, logs : LogSamples]

\* Array.from(new Set(..)) over the deviceId of each entry that has one
RECURSIVE DeviceIdsOf(_, _)
DeviceIdsOf(logs, seen) ==
    IF logs = << >> THEN << >>
    ELSE LET deviceId == Head(logs).deviceId
         IN  IF deviceId = "" \/ deviceId \in seen
             THEN DeviceIdsOf(Tail(logs), seen)
             ELSE <<deviceId>> \o DeviceIdsOf(Tail(logs), seen \cup {deviceId})

\* the logs a query from fromBlock to 'latest' returns
LogsFrom(logs, fromBlock) ==
    SelectSeq(logs, LAMBDA log : log.block >= fromBlock)

getAllDeviceIds_RethrowsFallback(env) ==
    IF ~env.addressValid THEN Resolved(<< >>)
    ELSE IF ~env.publicClient THEN Resolved(<< >>)
    ELSE IF ~env.blockNumberOk THEN Resolved(<< >>)
    ELSE LET currentBlock == env.currentBlock
             fromBlock == IF currentBlock > MAX_BLOCKS_PER_QUERY
                          THEN currentBlock - MAX_BLOCKS_PER_QUERY ELSE 0
         IN  IF env.getLogsOk
             THEN Resolved(DeviceIdsOf(LogsFrom(env.logs, fromBlock), {}))
             ELSE IF env.queryFilterOk
             THEN Resolved(DeviceIdsOf(LogsFrom(env.logs, fromBlock), {}))
             ELSE Thrown("Ethers fallback also failed")

getAllDeviceIds(env) ==
    IF ~env.addressValid THEN Resolved(<< >>)
    ELSE IF ~env.publicClient THEN Resolved(<< >>)
    ELSE IF ~env.blockNumberOk THEN Resolved(<< >>)
    ELSE LET currentBlock == env.currentBlock
             fromBlock == IF currentBlock > MAX_BLOCKS_PER_QUERY
                          THEN currentBlock - MAX_BLOCKS_PER_QUERY ELSE 0
         IN  IF env.getLogsOk
             THEN Resolved(DeviceIdsOf(LogsFrom(env.logs, fromBlock), {}))
             ELSE IF env.queryFilterOk
             THEN Resolved(DeviceIdsOf(LogsFrom(env.logs, fromBlock), {}))
             ELSE Resolved(<< >>)

\* manualDeviceIds of the page
ManualDeviceIds == {<< >>, <<"dev-002">>}

\* loadDevices up to the ids it queries: the ids found by discovery followed
\* by the manual ones, without duplicates; manualDeviceIds is replaced by
\* the discovered ids when there are any; an exception is caught and
\* reported by a toast
loadDevices(env, manualDeviceIds) ==
    LET discovered == getAllDeviceIds(env)
    IN  IF ~discovered.ok
        THEN [failed |-> TRUE, eventDeviceIds |-> << >>,
              allDeviceIds |-> << >>, manualDeviceIds |-> manualDeviceIds]
        ELSE LET eventDeviceIds == discovered.value
                 both == eventDeviceIds \o manualDeviceIds
             IN  [failed |-> FALSE, eventDeviceIds |-> eventDeviceIds,
                  allDeviceIds |->
                      DeviceIdsOf([i \in 1..Len(both) |->
                                      [deviceId |-> both[i]]], {}),
                  manualDeviceIds |->
                      IF Len(eventDeviceIds) > 0 THEN eventDeviceIds
                      ELSE manualDeviceIds]

\* a call of getAllDeviceIds; the outcome records the environment
DiscoverStep(env) ==
    /\ LET r == getAllDeviceIds(env)
       IN  ret' = Outcome("getAllDeviceIds", "", "",
                    [ok |-> r.ok, err |-> r.err,
                     value |-> [env |-> env, deviceIds |-> r.value]])
    /\ UNCHANGED <<contractVars, uiVars>>

\* a call of loadDevices; the outcome records the environment
LoadStep(env, manualDeviceIds) ==
    /\ LET r == loadDevices(env, manualDeviceIds)
       IN  ret' = Outcome("loadDevices", "", "",
                    [ok |-> ~r.failed,
                     err |-> IF r.failed THEN "Failed to load devices"
                             ELSE NoErr,
                     value |-> [env |-> env, before |-> manualDeviceIds,
                                eventDeviceIds |-> r.eventDeviceIds,
                                allDeviceIds |-> r.allDeviceIds,
                                manualDeviceIds |-> r.manualDeviceIds]])
    /\ UNCHANGED <<contractVars, uiVars>>

DiscoveryNext ==
    \/ \E env \in Environments : DiscoverStep(env)
    \/ \E env \in Environments, m \in ManualDeviceIds : LoadStep(env, m)

DiscoverySpec == Init /\ [][DiscoveryNext]_vars

(***************************************************************************)
(* Index page (pages/Index.tsx): loadDevices calls in flight, the manual   *)
(* device id handlers, Refresh, onDeviceRegistered and the effect on       *)
(* isConnected                                                             *)
(***************************************************************************)
Range(q) == {q[i] : i \in 1..Len(q)}

\* Array.from(new Set(ids))
Unique(ids) ==
    DeviceIdsOf([i \in 1..Len(ids) |-> [deviceId |-> ids[i]]], {})

\* the lists getAllDeviceIds can return
DiscoveryResults == {getAllDeviceIds(env).value : env \in Environments}

\* allDeviceIds of a loadDevices call whose getAllDeviceIds returned
\* eventDeviceIds
AllDeviceIds(load, eventDeviceIds) ==
    Unique(eventDeviceIds \o load.manualDeviceIds)

CanStart == \E l \in Loads : index.loads[l].pc = "idle"
NextLoad == CHOOSE l \in Loads : index.loads[l].pc = "idle"

\* loadDevices called from a render whose state is manualDeviceIds, up to
\* its first await: setIsLoading(true)
StartLoad(page, manualDeviceIds) ==
    [page EXCEPT
        !.isLoading = TRUE,
        !.shown = IF @ = "latest" THEN "older" ELSE @,
        !.loads = [l \in Loads |->
                      IF l = NextLoad
                      THEN [pc |-> "getAllDeviceIds",
                            manualDeviceIds |-> manualDeviceIds,
                            allDeviceIds |-> << >>, latest |-> TRUE]
                      ELSE [page.loads[l] EXCEPT !.latest = FALSE]]]

\* a loadDevices call ends: setDevices, setIsLoading(false)
EndLoad(page, l, loadedDevices) ==
    [page EXCEPT
        !.devices = loadedDevices,
        !.isLoading = FALSE,
        !.shown = IF page.loads[l].latest THEN "latest" ELSE "older",
        !.loads = [@ EXCEPT ![l] = NoLoad]]

\* the Refresh button, disabled while isLoading
Refresh ==
    /\ ~index.isLoading
    /\ CanStart
    /\ index' = StartLoad(index, index.manualDeviceIds)
    /\ UNCHANGED <<contractVars, ret, account, deviceCard, adminPanel>>

\* the Add button or the Enter key with manualDeviceId.trim() = x: the
\* loadDevices it calls belongs to the render the handler was created in
AddManualDeviceId(x) ==
    /\ CanStart
    /\ LET newIds == index.manualDeviceIds \o <<x>>
           page == [index EXCEPT !.manualDeviceIds = Unique(newIds),
                                 !.byHand = @ \cup {x}]
       IN  index' = StartLoad(page, index.manualDeviceIds)
    /\ UNCHANGED <<contractVars, ret, account, deviceCard, adminPanel>>

\* the x button next to a manual id
RemoveManualDeviceId(id) ==
    /\ id \in Range(index.manualDeviceIds)
    /\ CanStart
    /\ LET page == [index EXCEPT
                       !.manualDeviceIds = SelectSeq(@, LAMBDA d : d # id),
                       !.byHand = @ \ {id}]
       IN  index' = StartLoad(page, index.manualDeviceIds)
    /\ UNCHANGED <<contractVars, ret, account, deviceCard, adminPanel>>

\* AdminPanel reports a completed registration
onDeviceRegistered ==
    /\ ret.op = "registerDevice"
    /\ ret.ok
    /\ CanStart
    /\ index' = StartLoad(index, index.manualDeviceIds)
    /\ UNCHANGED <<contractVars, ret, account, deviceCard, adminPanel>>

\* the wallet connects or disconnects: the effect on isConnected finds the
\* contract deployed and calls loadDevices
checkDeployment ==
    /\ CanStart
    /\ account' = IF account.isConnected THEN Disconnected
                  ELSE Connected(Deployer)
    /\ index' = StartLoad(index, index.manualDeviceIds)
    /\ UNCHANGED <<contractVars, ret, deviceCard, adminPanel>>

\* getAllDeviceIds of call l returns eventDeviceIds
LoadDiscovered(l, eventDeviceIds) ==
    /\ index.loads[l].pc = "getAllDeviceIds"
    /\ LET allDeviceIds == AllDeviceIds(index.loads[l], eventDeviceIds)
           page == [index EXCEPT
                       !.manualDeviceIds =
                           IF Len(eventDeviceIds) > 0 THEN eventDeviceIds
                           ELSE @]
       IN  IF Len(allDeviceIds) = 0
           THEN index' = EndLoad(page, l, << >>)
           ELSE index' = [page EXCEPT
                             !.loads[l].pc = "getDeviceInfo",
                             !.loads[l].manualDeviceIds = << >>,
                             !.loads[l].allDeviceIds = allDeviceIds]
    /\ UNCHANGED <<contractVars, ret, account, deviceCard, adminPanel>>

\* the getDeviceInfo calls of call l have returned: the devices that exist
LoadFinished(l) ==
    /\ index.loads[l].pc = "getDeviceInfo"
    /\ index' = EndLoad(index, l,
                    SelectSeq(index.loads[l].allDeviceIds,
                              LAMBDA d : devices[d].exists))
    /\ UNCHANGED <<contractVars, ret, account, deviceCard, adminPanel>>

PageNext ==
    \/ Refresh
    \/ \E x \in DeviceIds : AddManualDeviceId(x)
    \/ \E id \in DeviceIds : RemoveManualDeviceId(id)
    \/ \E id \in DeviceIds : registerDevice(Deployer, id, V1, Cipher12)
    \/ onDeviceRegistered
    \/ checkDeployment
    \/ \E l \in Loads, e \in DiscoveryResults : LoadDiscovered(l, e)
    \/ \E l \in Loads : LoadFinished(l)

PageSpec == Init /\ [][PageNext]_vars

(***************************************************************************)
(* DeviceCard (components/DeviceCard.tsx): handleDecrypt, handleLock and   *)
(* the effect on isConnected, for the card of dev-001                      *)
(***************************************************************************)
CardDevice == "dev-001"
CardChainId == 31337

\* a string state that is not null
Some(str) == <<str>>

\* records encrypted under the wallet of the deployer and stored in the
\* encoding getEncryptedRecords reads back
SealedRecords ==
    [encryptedNotes |->
        encryptedStringToBytes(
            encryptString(TextOk, AddressString(Deployer), CardChainId, IvA)),
     encryptedCalibration |->
        encryptedStringToBytes(
            encryptString(TextN, AddressString(Deployer), CardChainId, IvB))]

Locked(card) ==
    [card EXCEPT !.isUnlocked = FALSE, !.decryptedNotes = null,
                 !.decryptedCalibration = null]

\* the wallet connects; the effect on isConnected is scheduled
Connect(a) ==
    /\ ~account.isConnected
    /\ account' = Connected(a)
    /\ deviceCard' = [deviceCard EXCEPT !.effect = TRUE]
    /\ UNCHANGED <<contractVars, ret, index, adminPanel>>

\* the wallet disconnects; the effect on isConnected is scheduled
Disconnect ==
    /\ account.isConnected
    /\ account' = Disconnected
    /\ deviceCard' = [deviceCard EXCEPT !.effect = TRUE]
    /\ UNCHANGED <<contractVars, ret, index, adminPanel>>

\* useEffect(..., [isConnected])
DisconnectEffect ==
    /\ deviceCard.effect
    /\ deviceCard' = [(IF ~account.isConnected THEN Locked(deviceCard)
                       ELSE deviceCard) EXCEPT !.effect = FALSE]
    /\ UNCHANGED <<contractVars, ret, account, index, adminPanel>>

\* the button shows handleDecrypt while locked and is disabled when the
\* wallet is not connected or a decryption is running
handleDecrypt ==
    /\ account.isConnected
    /\ ~deviceCard.isDecrypting
    /\ ~deviceCard.isUnlocked
    /\ deviceCard.pc = "idle"
    /\ deviceCard' = [deviceCard EXCEPT !.isDecrypting = TRUE,
                                        !.pc = "checkAuthorization",
                                        !.address = account.address]
    /\ UNCHANGED <<contractVars, ret, account, index, adminPanel>>

\* await checkAuthorization() returns
AuthorizationChecked ==
    /\ deviceCard.pc = "checkAuthorization"
    /\ LET authorized == isAuthorizedResult(deviceCard.address)
       IN  deviceCard' =
               IF ~authorized
               THEN [deviceCard EXCEPT !.isDecrypting = FALSE, !.pc = "idle"]
               ELSE [deviceCard EXCEPT !.pc = "decryptDeviceRecords"]
    /\ UNCHANGED <<contractVars, ret, account, index, adminPanel>>

\* await decryptDeviceRecords(device.deviceId) returns
RecordsDecrypted ==
    /\ deviceCard.pc = "decryptDeviceRecords"
    /\ LET decrypted == DecryptedRecords(deviceCard.address, CardChainId,
                                         CardDevice)
           card == [deviceCard EXCEPT !.isDecrypting = FALSE, !.pc = "idle"]
       IN  deviceCard' =
               IF decrypted.ok
               THEN [card EXCEPT
                        !.decryptedNotes = Some(decrypted.value.notes),
                        !.decryptedCalibration =
                            Some(decrypted.value.calibration),
                        !.isUnlocked = TRUE]
               ELSE card
    /\ UNCHANGED <<contractVars, ret, account, index, adminPanel>>

\* the button shows handleLock while unlocked
handleLock ==
    /\ account.isConnected
    /\ ~deviceCard.isDecrypting
    /\ deviceCard.isUnlocked
    /\ deviceCard' = Locked(deviceCard)
    /\ UNCHANGED <<contractVars, ret, account, index, adminPanel>>

CardNext ==
    \/ \E a \in TxSenders : Connect(a)
    \/ Disconnect
    \/ DisconnectEffect
    \/ handleDecrypt
    \/ AuthorizationChecked
    \/ RecordsDecrypted
    \/ handleLock
    \/ registerDevice(Deployer, CardDevice, V1, SealedRecords)
    \/ \E a \in Addr : authorizeTechnician(Deployer, a)
    \/ \E a \in Addr : revokeTechnician(Deployer, a)

CardSpec == Init /\ [][CardNext]_vars

(***************************************************************************)
(* AdminPanel (components/AdminPanel.tsx): technician authorization        *)
(***************************************************************************)
\* what the user types into the technician address field
TechnicianAddresses == {"", "0xB", "0xA", "0x0", "technician"}

\* ethers.isAddress
isAddress(str) == str \in Addr

\* onChange of the technician address field
setTechnicianAddress(str) ==
    /\ str # adminPanel.technicianAddress
    /\ adminPanel' = [adminPanel EXCEPT !.technicianAddress = str]
    /\ UNCHANGED <<contractVars, ret, account, index, deviceCard>>

\* the Authorize Technician button, disabled without an address or while
\* isAuthorizing; up to the first await
handleAuthorizeTechnician ==
    /\ account.isConnected
    /\ adminPanel.technicianAddress # ""
    /\ ~adminPanel.isAuthorizing
    /\ isAddress(adminPanel.technicianAddress)
    /\ adminPanel' = [adminPanel EXCEPT
                         !.isAuthorizing = TRUE,
                         !.pc = "authorizeTechnician",
                         !.signer = account.address,
                         !.technician = adminPanel.technicianAddress]
    /\ UNCHANGED <<contractVars, ret, account, index, deviceCard>>

\* the rest of handleAuthorizeTechnician: the transaction is confirmed, or
\* it reverts, or it never reaches the contract (rejected: no public
\* client, no signer, refused in the wallet) and the catch block reports it
AuthorizeSettled(rejected) ==
    /\ adminPanel.pc = "authorizeTechnician"
    /\ LET sender == adminPanel.signer
           technician == adminPanel.technician
           settled == [adminPanel EXCEPT !.pc = "idle", !.signer = "",
                                         !.technician = ""]
       IN  IF rejected
           THEN /\ adminPanel' = settled
                /\ UNCHANGED <<contractVars, ret>>
           ELSE IF ~onlyOwner(sender)
           THEN /\ adminPanel' = settled
                /\ ret' = Revert("authorizeTechnician", sender, technician,
                                 ErrOnlyOwner)
                /\ UNCHANGED contractVars
           ELSE IF ~(technician # Zero)
           THEN /\ adminPanel' = settled
                /\ ret' = Revert("authorizeTechnician", sender, technician,
                                 ErrInvalidAddress)
                /\ UNCHANGED contractVars
           ELSE IF authorizedTechnicians[technician]
           THEN /\ adminPanel' = settled
                /\ ret' = Revert("authorizeTechnician", sender, technician,
                                 ErrAlreadyAuthorized)
                /\ UNCHANGED contractVars
           ELSE /\ Len(events) < MaxEvents
                /\ authorizedTechnicians' =
                       [authorizedTechnicians EXCEPT ![technician] = TRUE]
                /\ events' = Append(events,
                       [kind |-> "TechnicianAuthorized",
                        technician |-> technician, by |-> sender])
                /\ ret' = Ok("authorizeTechnician", sender, technician, << >>)
                /\ adminPanel' = [settled EXCEPT !.technicianAddress = ""]
                /\ UNCHANGED <<owner, devices>>
    /\ UNCHANGED <<account, index, deviceCard>>

PanelNext ==
    \/ \E a \in TxSenders : Connect(a)
    \/ Disconnect
    \/ \E str \in TechnicianAddresses : setTechnicianAddress(str)
    \/ handleAuthorizeTechnician
    \/ \E rejected \in BOOLEAN : AuthorizeSettled(rejected)

PanelSpec == Init /\ [][PanelNext]_vars

\* every awaited call of handleAuthorizeTechnician eventually returns
PanelLiveSpec ==
    PanelSpec /\ WF_vars(\E rejected \in BOOLEAN : AuthorizeSettled(rejected))

(***************************************************************************)
(* encryptedStringToBytes and bytesToEncryptedString applied to sample     *)
(* envelopes and byte arrays                                               *)
(***************************************************************************)
\* '0', '9', 'a', 'f'
HexDigits == {48, 57, 97, 102}

\* 24 characters repeating a pair of digits
IvStrings ==
    {[i \in 1..2 * IvLength |-> IF i % 2 = 1 THEN p[1] ELSE p[2]] :
        p \in HexDigits \X HexDigits}

\* bodies of 0, 2 and 4 lower-case digits, one of 3 digits and one in
\* upper case
BodyStrings ==
    {<< >>} \cup {<<p[1], p[2]>> : p \in HexDigits \X HexDigits}
        \cup {<<97, 98, 99, 100>>, <<48, 49, 50>>, <<65, 66>>}

EnvelopeInputs ==
    {iv \o <<Colon>> \o body : iv \in IvStrings, body \in BodyStrings}

\* byte arrays of 12 equal bytes followed by 0, 1 or 2 bytes, and a short one
ByteInputs ==
    {[i \in 1..IvLength |-> b] \o rest :
        b \in {0, 9, 171, 255}, rest \in {<< >>, <<0>>, <<255, 16>>}}
        \cup {<<1, 2, 3>>}

\* encryptedStringToBytes(encryptedData), then bytesToEncryptedString of it
ToBytesStep(encryptedData) ==
    /\ LET bytes == encryptedStringToBytes(encryptedData)
       IN  ret' = Outcome("encryptedStringToBytes", "", "",
                     Resolved([encryptedData |-> encryptedData,
                               bytes |-> bytes,
                               back |-> bytesToEncryptedString(bytes)]))
    /\ UNCHANGED <<contractVars, uiVars>>

\* bytesToEncryptedString(bytes), then encryptedStringToBytes of it
ToStringStep(bytes) ==
    /\ LET encryptedData == bytesToEncryptedString(bytes)
       IN  ret' = Outcome("bytesToEncryptedString", "", "",
                     Resolved([bytes |-> bytes,
                               encryptedData |-> encryptedData,
                               back |-> encryptedStringToBytes(encryptedData)]))
    /\ UNCHANGED <<contractVars, uiVars>>

EncodingNext ==
    \/ \E encryptedData \in EnvelopeInputs : ToBytesStep(encryptedData)
    \/ \E bytes \in ByteInputs : ToStringStep(bytes)

EncodingSpec == Init /\ [][EncodingNext]_vars

(***************************************************************************)
(* Properties                                                              *)
(***************************************************************************)
GatedOps == {"registerDevice", "updateMaintenance", "getEncryptedRecords"}
LedgerOps == {"authorizeTechnician", "revokeTechnician"}
CiphertextFields == {"encryptedNotes", "encryptedCalibration"}
VisibleFields == DOMAIN DeviceInfo(Device)

\* the members a successful call of op returns
ReturnFields(op) ==
    CASE op = "devices" -> DOMAIN DevicesGetter(Device)
      [] op = "getDeviceInfo" -> DOMAIN DeviceInfo(Device)
      [] op = "getEncryptedRecords" -> DOMAIN EncryptedRecords(Device)
      [] OTHER -> {}

\* the log holds a successful grant of a
GrantedBefore(a) ==
    \E i \in 1..Len(events) :
        events[i].kind = "TechnicianAuthorized" /\ events[i].technician = a

\* the last grant or revoke of a in the log is a revoke
RevokedLast(a) ==
    \E i \in 1..Len(events) :
        /\ events[i].kind = "TechnicianRevoked"
        /\ events[i].technician = a
        /\ \A j \in (i+1)..Len(events) :
              ~(events[j].kind = "TechnicianAuthorized"
                /\ events[j].technician = a)

\* C1: no externally callable read returns the ciphertext fields of an
\* existing record to a caller for whom isAuthorized is false.
C1_NoCiphertextForUnauthorized ==
    ( /\ ret.ok
      /\ ReturnFields(ret.op) \cap CiphertextFields # {}
      /\ devices[ret.key].exists )
    => isAuthorizedResult(ret.sender)

\* C2: a registerDevice, updateMaintenance or getEncryptedRecords call
\* succeeds only for a caller for whom isAuthorized holds in the state the
\* call executes in; any other caller gets 'Not authorized technician' and
\* nothing changes; a technician whose last grant/revoke is a revoke fails.
C2_GatedCallsNeedAuthorization ==
    [][ ret'.op \in GatedOps =>
          /\ ret'.ok => isAuthorizedResult(ret'.sender)
          /\ ~isAuthorizedResult(ret'.sender) =>
                /\ ~ret'.ok
                /\ ret'.err = ErrNotAuthorized
                /\ UNCHANGED contractVars
          /\ (RevokedLast(ret'.sender) /\ ret'.sender # owner) =>
                (~ret'.ok /\ ret'.err = ErrNotAuthorized) ]_vars

C2_Witness ==
    /\ ret.op \in GatedOps
    /\ ~ret.ok
    /\ ret.err = ErrNotAuthorized
    /\ ret.sender # owner
    /\ GrantedBefore(ret.sender)
    /\ RevokedLast(ret.sender)

\* C3: isAuthorized(x) returns true iff x is the owner or x's table entry is
\* true; it never fails, changes no state, and agrees with the decision of
\* the onlyAuthorized modifier for x.
C3_IsAuthorizedIffOwnerOrEntry ==
    [][ ret'.op = "isAuthorized" =>
          /\ ret'.ok
          /\ ret'.value = (ret'.key = owner \/ authorizedTechnicians[ret'.key])
          /\ ret'.value = onlyAuthorized(ret'.key)
          /\ UNCHANGED contractVars ]_vars

C3_Witness ==
    /\ ret.op = "isAuthorized"
    /\ ret.key = owner
    /\ ~authorizedTechnicians[owner]
    /\ ret.value = TRUE

\* C4 (as stated): for every identity X, isAuthorized(X) is true after a
\* successful grant of X and false after a subsequent successful revoke of X.
C4_Original ==
    /\ (ret.op = "authorizeTechnician" /\ ret.ok) =>
            isAuthorizedResult(ret.key)
    /\ (ret.op = "revokeTechnician" /\ ret.ok /\ GrantedBefore(ret.key)) =>
            ~isAuthorizedResult(ret.key)

\* C4 (amended): isAuthorized(X) is true after a successful grant of X; it is
\* false after a successful revoke of X when X is not the owner; and the
\* value of isAuthorized(X) changes only in a successful grant or revoke of X.
C4_GrantThenRevoke ==
    [][ \A x \in Addr :
          /\ (ret'.op = "authorizeTechnician" /\ ret'.ok /\ ret'.key = x) =>
                isAuthorizedResult(x)'
          /\ (ret'.op = "revokeTechnician" /\ ret'.ok /\ ret'.key = x
               /\ x # owner) =>
                ~isAuthorizedResult(x)'
          /\ (isAuthorizedResult(x)' # isAuthorizedResult(x)) =>
                (ret'.op \in LedgerOps /\ ret'.ok /\ ret'.key = x) ]_vars

C4_Witness ==
    /\ ret.op = "revokeTechnician"
    /\ ret.ok
    /\ ret.key # owner
    /\ GrantedBefore(ret.key)
    /\ ~isAuthorizedResult(ret.key)

\* C5: the owner is authorized in every reachable state, whatever grants and
\* revokes (of the owner too) happened: isAuthorized(owner) returns true and
\* no gated call by the owner fails with 'Not authorized technician'.
C5_OwnerAlwaysAuthorized ==
    /\ isAuthorizedResult(owner)
    /\ onlyAuthorized(owner)
    /\ (ret.op = "isAuthorized" /\ ret.key = owner) => ret.value = TRUE
    /\ (ret.op \in GatedOps /\ ret.sender = owner) => ret.err # ErrNotAuthorized

C5_Witness ==
    /\ ~authorizedTechnicians[owner]
    /\ RevokedLast(owner)
    /\ ret.op \in GatedOps
    /\ ret.sender = owner
    /\ ret.ok

\* C6: on a ledger where the owner was never granted, revoke(owner) by the
\* owner fails with 'Technician not authorized' and no TechnicianRevoked
\* event for the owner is in the log.
C6_FreshRevokeOfOwnerFails ==
    ( /\ ret.op = "revokeTechnician"
      /\ ret.sender = owner
      /\ ret.key = owner
      /\ ~GrantedBefore(owner) )
    => ( /\ ~ret.ok
         /\ ret.err = ErrTechNotAuthorized
         /\ \A i \in 1..Len(events) :
               ~(events[i].kind = "TechnicianRevoked"
                 /\ events[i].technician = owner) )

\* C7: authorizeTechnician and revokeTechnician by anyone but the owner fail
\* with 'Only owner can perform this action' and change neither the table,
\* the records nor the log; an entry of the table changes only in a call by
\* the owner.
C7_OnlyOwnerChangesEntries ==
    [][ /\ (ret'.op \in LedgerOps /\ ret'.sender # owner) =>
              /\ ~ret'.ok
              /\ ret'.err = ErrOnlyOwner
              /\ UNCHANGED contractVars
        /\ (authorizedTechnicians' # authorizedTechnicians) =>
              (ret'.op \in LedgerOps /\ ret'.sender = owner /\ ret'.ok) ]_vars

C7_Witness ==
    /\ ret.op \in LedgerOps
    /\ ret.sender # owner
    /\ authorizedTechnicians[ret.sender]
    /\ ret.err = ErrOnlyOwner

\* C8: called by the owner, authorizeTechnician fails with 'Technician
\* already authorized' for a granted target and with 'Invalid address' for
\* address(0), revokeTechnician fails with 'Technician not authorized' for a
\* target that is not granted; each failure leaves table and log unchanged.
C8_LedgerPreconditions ==
    [][ (ret'.op \in LedgerOps /\ ret'.sender = owner) =>
          /\ (ret'.op = "authorizeTechnician" /\ authorizedTechnicians[ret'.key])
                => (~ret'.ok /\ ret'.err = ErrAlreadyAuthorized
                    /\ UNCHANGED contractVars)
          /\ (ret'.op = "authorizeTechnician" /\ ret'.key = Zero)
                => (~ret'.ok /\ ret'.err = ErrInvalidAddress
                    /\ UNCHANGED contractVars)
          /\ (ret'.op = "revokeTechnician" /\ ~authorizedTechnicians[ret'.key])
                => (~ret'.ok /\ ret'.err = ErrTechNotAuthorized
                    /\ UNCHANGED contractVars) ]_vars

C8_Witness ==
    /\ ret.op = "authorizeTechnician"
    /\ ret.sender = owner
    /\ ret.key # owner
    /\ ret.err = ErrAlreadyAuthorized
    /\ Len(events) > 0

\* C9 (as stated): registerDevice with an id already present fails with
\* 'Device already exists' whatever the other arguments, the caller
\* included, and leaves records and log unchanged.
C9_Original ==
    [][ (ret'.op = "registerDevice" /\ devices[ret'.key].exists) =>
          /\ ~ret'.ok
          /\ ret'.err = ErrDeviceExists
          /\ UNCHANGED contractVars ]_vars

\* C9 (amended): registerDevice with an id already present fails and leaves
\* records and log unchanged; the error is 'Device already exists' when the
\* caller is authorized and 'Not authorized technician' when it is not.
C9_DuplicateIdRejected ==
    [][ (ret'.op = "registerDevice" /\ devices[ret'.key].exists) =>
          /\ ~ret'.ok
          /\ ret'.err = IF isAuthorizedResult(ret'.sender)
                        THEN ErrDeviceExists ELSE ErrNotAuthorized
          /\ UNCHANGED contractVars ]_vars

C9_Witness ==
    /\ ret.op = "registerDevice"
    /\ ret.err = ErrDeviceExists
    /\ devices[ret.key].exists

\* C10 (as stated): a successful updateMaintenance overwrites every visible
\* field of the record (name, deviceType, status, both timestamps) with a
\* value the caller supplied.
C10_Original ==
    (ret.op = "updateMaintenance" /\ ret.ok) =>
        \A f \in VisibleFields :
            /\ f \in DOMAIN ret.value
            /\ devices[ret.key][f] = ret.value[f]

\* C10 (amended): a successful updateMaintenance has an authorized caller and
\* an existing id; it overwrites status, lastMaintenance, nextCalibration and
\* both ciphertext fields with the supplied values and keeps name and
\* deviceType as registered; getDeviceInfo then returns exactly that.
C10_UpdateOverwrites ==
    [][ (ret'.op = "updateMaintenance" /\ ret'.ok) =>
          LET old == devices[ret'.key]
              new == devices'[ret'.key]
              arg == ret'.value
          IN /\ isAuthorizedResult(ret'.sender)
             /\ old.exists /\ new.exists
             /\ DeviceInfo(new) =
                    [name |-> old.name, deviceType |-> old.deviceType,
                     status |-> arg.status,
                     lastMaintenance |-> arg.lastMaintenance,
                     nextCalibration |-> arg.nextCalibration]
             /\ new.encryptedNotes = arg.encryptedNotes
             /\ new.encryptedCalibration = arg.encryptedCalibration
             /\ \A d \in DeviceIds \ {ret'.key} : devices'[d] = devices[d] ]_vars

C10_Witness ==
    /\ ret.op = "updateMaintenance"
    /\ ret.ok
    /\ devices[ret.key].name = "CT-7"
    /\ devices[ret.key].status = Maintenance
    /\ devices[ret.key].nextCalibration = 60
    /\ devices[ret.key].encryptedNotes = E1

WriteOps == {"registerDevice", "updateMaintenance"}
MutatingOps == WriteOps \cup LedgerOps
EmptyErrs == {ErrEmptyNotes, ErrEmptyCalibration}
HasEmpty(c) == c.encryptedNotes = Empty \/ c.encryptedCalibration = Empty

\* the log holds a successful registration of id
RegisteredBefore(id) ==
    \E i \in 1..Len(events) :
        events[i].kind = "DeviceRegistered" /\ events[i].deviceId = id

\* the log holds a successful update of id
UpdatedBefore(id) ==
    \E i \in 1..Len(events) :
        events[i].kind = "MaintenanceUpdated" /\ events[i].deviceId = id

\* C11: for an authorized caller getEncryptedRecords returns, in order, the
\* pair (encryptedNotes, encryptedCalibration) the most recent successful
\* registerDevice or updateMaintenance of the id wrote, fails with 'Device
\* does not exist' for an absent id, and changes no state.
C11_ReadsLastWritten ==
    [][ /\ (ret'.op \in WriteOps /\ ret'.ok) =>
              /\ devices'[ret'.key].encryptedNotes = ret'.value.encryptedNotes
              /\ devices'[ret'.key].encryptedCalibration =
                    ret'.value.encryptedCalibration
              /\ \A d \in DeviceIds \ {ret'.key} : devices'[d] = devices[d]
        /\ ~(ret'.op \in WriteOps /\ ret'.ok) => devices' = devices
        /\ (ret'.op = "getEncryptedRecords"
            /\ isAuthorizedResult(ret'.sender)) =>
              /\ UNCHANGED contractVars
              /\ IF devices[ret'.key].exists
                 THEN /\ ret'.ok
                      /\ ret'.value =
                            [encryptedNotes |->
                                devices[ret'.key].encryptedNotes,
                             encryptedCalibration |->
                                devices[ret'.key].encryptedCalibration]
                 ELSE ~ret'.ok /\ ret'.err = ErrDeviceMissing ]_vars

C11_Witness ==
    /\ ret.op = "getEncryptedRecords"
    /\ ret.ok
    /\ ret.sender # owner
    /\ devices[ret.key].name = "MRI-X200"
    /\ UpdatedBefore(ret.key)
    /\ ret.value.encryptedNotes = E3
    /\ ret.value.encryptedCalibration = E4

\* C12: getDeviceInfo is ungated: for every caller it succeeds whenever the
\* id exists and returns the five visible fields as stored, it fails with
\* 'Device does not exist' exactly when the id was never registered, it
\* changes nothing and returns no ciphertext field.
C12_PublicInfoUngated ==
    [][ /\ (ret'.op = "registerDevice" /\ ret'.ok) =>
              \A f \in VisibleFields :
                  devices'[ret'.key][f] = ret'.value[f]
        /\ ret'.op = "getDeviceInfo" =>
              /\ UNCHANGED contractVars
              /\ devices[ret'.key].exists <=> RegisteredBefore(ret'.key)
              /\ IF RegisteredBefore(ret'.key)
                 THEN /\ ret'.ok
                      /\ DOMAIN ret'.value = VisibleFields
                      /\ DOMAIN ret'.value \cap CiphertextFields = {}
                      /\ \A f \in VisibleFields :
                            ret'.value[f] = devices[ret'.key][f]
                 ELSE ~ret'.ok /\ ret'.err = ErrDeviceMissing ]_vars

C12_Witness ==
    /\ ret.op = "getDeviceInfo"
    /\ ret.ok
    /\ ~isAuthorizedResult(ret.sender)
    /\ ret.value.name = "CT-7"
    /\ ret.value.status = Maintenance

\* C13 (as stated): registerDevice and updateMaintenance with an empty
\* ciphertext argument fail with the empty-ciphertext error and change
\* nothing; every existing record has two non-empty ciphertext fields.
C13_Original ==
    [][ /\ \A s \in TxSenders, id \in DeviceIds, a \in RegisterInputs :
              (/\ HasEmpty(a[2])
               /\ ret'.op = "registerDevice"
               /\ ret'.sender = s /\ ret'.key = id
               /\ registerDevice(s, id, a[1], a[2])) =>
                  (~ret'.ok /\ ret'.err \in EmptyErrs
                   /\ UNCHANGED contractVars)
        /\ \A s \in TxSenders, id \in DeviceIds, a \in UpdateInputs,
              t \in BlockTimes :
              (/\ HasEmpty(a[2])
               /\ ret'.op = "updateMaintenance"
               /\ ret'.sender = s /\ ret'.key = id
               /\ updateMaintenance(s, id, a[1], a[2], t)) =>
                  (~ret'.ok /\ ret'.err \in EmptyErrs
                   /\ UNCHANGED contractVars)
        /\ \A id \in DeviceIds :
              devices'[id].exists =>
                  (Len(devices'[id].encryptedNotes) > 0
                   /\ Len(devices'[id].encryptedCalibration) > 0) ]_vars

\* the revert reason of a call with an empty ciphertext argument c, given
\* whether the id check of the function passes
EmptyCiphertextReason(s, idCheckPasses, idErr, c) ==
    IF ~isAuthorizedResult(s) THEN ErrNotAuthorized
    ELSE IF ~idCheckPasses THEN idErr
    ELSE IF c.encryptedNotes = Empty THEN ErrEmptyNotes
    ELSE ErrEmptyCalibration

\* C13 (amended): registerDevice and updateMaintenance with an empty
\* ciphertext argument fail and change nothing; the error is the
\* empty-ciphertext one when the caller is authorized and the id check
\* passes, otherwise that of the earlier failing check; every existing
\* record has two non-empty ciphertext fields.
C13_EmptyCiphertextRejected ==
    [][ /\ \A s \in TxSenders, id \in DeviceIds, a \in RegisterInputs :
              (/\ HasEmpty(a[2])
               /\ ret'.op = "registerDevice"
               /\ ret'.sender = s /\ ret'.key = id
               /\ registerDevice(s, id, a[1], a[2])) =>
                  /\ ~ret'.ok
                  /\ ret'.err = EmptyCiphertextReason(s,
                        ~devices[id].exists, ErrDeviceExists, a[2])
                  /\ UNCHANGED contractVars
        /\ \A s \in TxSenders, id \in DeviceIds, a \in UpdateInputs,
              t \in BlockTimes :
              (/\ HasEmpty(a[2])
               /\ ret'.op = "updateMaintenance"
               /\ ret'.sender = s /\ ret'.key = id
               /\ updateMaintenance(s, id, a[1], a[2], t)) =>
                  /\ ~ret'.ok
                  /\ ret'.err = EmptyCiphertextReason(s,
                        devices[id].exists, ErrDeviceMissing, a[2])
                  /\ UNCHANGED contractVars
        /\ \A id \in DeviceIds :
              devices'[id].exists =>
                  (Len(devices'[id].encryptedNotes) > 0
                   /\ Len(devices'[id].encryptedCalibration) > 0) ]_vars

C13_Witness ==
    /\ ret.op = "updateMaintenance"
    /\ ret.sender # owner
    /\ ret.err = ErrEmptyCalibration
    /\ devices[ret.key].exists
    /\ Len(devices[ret.key].encryptedCalibration) > 0

\* C14 (as stated): updateMaintenance on an id that was never registered
\* fails with 'Device does not exist', creates no record and emits nothing.
C14_Original ==
    [][ (ret'.op = "updateMaintenance" /\ ~RegisteredBefore(ret'.key)) =>
          /\ ~ret'.ok
          /\ ret'.err = ErrDeviceMissing
          /\ ~devices'[ret'.key].exists
          /\ UNCHANGED contractVars ]_vars

\* C14 (amended): updateMaintenance on an id that was never registered
\* fails, with 'Device does not exist' for an authorized caller and 'Not
\* authorized technician' otherwise; it creates no record, emits nothing,
\* and a getDeviceInfo of the id that follows still fails.
C14_UpdateOfMissingRejected ==
    [][ /\ (ret'.op = "updateMaintenance" /\ ~RegisteredBefore(ret'.key)) =>
              /\ ~ret'.ok
              /\ ret'.err = IF isAuthorizedResult(ret'.sender)
                            THEN ErrDeviceMissing ELSE ErrNotAuthorized
              /\ ~devices'[ret'.key].exists
              /\ UNCHANGED contractVars
        /\ (ret.op = "updateMaintenance" /\ ret.err = ErrDeviceMissing
            /\ ret'.op = "getDeviceInfo" /\ ret'.key = ret.key) =>
              (~ret'.ok /\ ret'.err = ErrDeviceMissing) ]_vars

C14_Witness ==
    /\ ret.op = "updateMaintenance"
    /\ ret.err = ErrDeviceMissing
    /\ ret.sender # owner
    /\ ~devices[ret.key].exists
    /\ \E d \in DeviceIds : devices[d].exists

\* C15 (as stated): once registered, a record exists in every later state,
\* every later registerDevice of its id fails with 'Device already exists'
\* and getDeviceInfo of its id never fails again.
C15_Original ==
    [][ \A id \in DeviceIds :
          devices[id].exists =>
              /\ devices'[id].exists
              /\ (ret'.op = "registerDevice" /\ ret'.key = id) =>
                    (~ret'.ok /\ ret'.err = ErrDeviceExists)
              /\ (ret'.op = "getDeviceInfo" /\ ret'.key = id) => ret'.ok ]_vars

\* C15 (amended): once registered, a record exists in every later state,
\* every later registerDevice of its id fails (with 'Device already exists'
\* for an authorized caller, 'Not authorized technician' otherwise) and
\* getDeviceInfo of its id never fails again.
C15_RecordsNeverDeleted ==
    [][ \A id \in DeviceIds :
          (devices[id].exists \/ RegisteredBefore(id)) =>
              /\ devices'[id].exists
              /\ (ret'.op = "registerDevice" /\ ret'.key = id) =>
                    /\ ~ret'.ok
                    /\ ret'.err = IF isAuthorizedResult(ret'.sender)
                                  THEN ErrDeviceExists ELSE ErrNotAuthorized
              /\ (ret'.op = "getDeviceInfo" /\ ret'.key = id) => ret'.ok ]_vars

C15_Witness ==
    /\ ret.op = "registerDevice"
    /\ ret.err = ErrDeviceExists
    /\ UpdatedBefore(ret.key)
    /\ devices[ret.key].exists

\* the event kind each mutating function emits
EventKind(op) ==
    CASE op = "registerDevice" -> "DeviceRegistered"
      [] op = "updateMaintenance" -> "MaintenanceUpdated"
      [] op = "authorizeTechnician" -> "TechnicianAuthorized"
      [] op = "revokeTechnician" -> "TechnicianRevoked"

\* C16: a successful registerDevice, updateMaintenance, authorizeTechnician
\* or revokeTechnician appends exactly one event, of the function's kind,
\* carrying the call's id or target and its caller; every other call
\* (failed or view) leaves the log unchanged.
C16_OneEventPerSuccess ==
    [][ IF ret'.ok /\ ret'.op \in MutatingOps
        THEN /\ Len(events') = Len(events) + 1
             /\ SubSeq(events', 1, Len(events)) = events
             /\ LET e == events'[Len(events')]
                IN /\ e.kind = EventKind(ret'.op)
                   /\ ret'.op \in LedgerOps =>
                        (e.technician = ret'.key /\ e.by = ret'.sender)
                   /\ ret'.op \in WriteOps =>
                        (e.deviceId = ret'.key
                         /\ e.technician = ret'.sender)
                   /\ ret'.op = "registerDevice" =>
                        e.name = ret'.value.name
                   /\ ret'.op = "updateMaintenance" =>
                        e.timestamp \in BlockTimes
        ELSE events' = events ]_vars

C16_Witness ==
    /\ Len(events) >= 3
    /\ events[1].kind = "TechnicianAuthorized"
    /\ events[2].kind = "DeviceRegistered"
    /\ events[3].kind = "MaintenanceUpdated"
    /\ events[3].technician # owner
    /\ ret.op = "getDeviceInfo"
    /\ ~ret.ok

\* C17: the owner set by the constructor is the owner in every reachable
\* state; no call changes it.
C17_OwnerFixed ==
    [][owner' = owner /\ owner' = Deployer]_vars

C17_Witness ==
    /\ ret.op = "owner"
    /\ ret.value = Deployer
    /\ RevokedLast(owner)
    /\ GrantedBefore(Technician)

\* in the current state, what the account of session w reads back for id
\* is the pair of envelopes encryptString produced for the inputs n, and
\* decryptDeviceRecords returns the plaintexts of n
StoredRoundTrip(w, id, n) ==
    /\ EncryptedStrings(w[1], id).ok
    /\ EncryptedStrings(w[1], id).value.encryptedNotes =
          encryptString(n[1], AddressString(w[1]), w[2], n[3])
    /\ EncryptedStrings(w[1], id).value.encryptedCalibration =
          encryptString(n[2], AddressString(w[1]), w[2], n[4])
    /\ DecryptedRecords(w[1], w[2], id).ok
    /\ DecryptedRecords(w[1], w[2], id).value.notes = n[1]
    /\ DecryptedRecords(w[1], w[2], id).value.calibration = n[2]

\* C18: after a successful client registerDevice or updateMaintenance by an
\* authorized account T on chain c has stored encryptString(p, T, c) for an
\* id, the envelope T's client reads back with getEncryptedRecords equals
\* the one encryptString produced and decryptDeviceRecords by T on chain c
\* returns p.
C18_RoundTripThroughStore ==
    \A w \in Sessions, n \in NotesInputs :
        (/\ ret.op \in WriteOps
         /\ ret.ok
         /\ ret.sender = w[1]
         /\ [encryptedNotes |-> ret.value.encryptedNotes,
             encryptedCalibration |-> ret.value.encryptedCalibration] =
               EncryptedArguments(w[1], w[2], n[1], n[2], n[3], n[4]))
            => StoredRoundTrip(w, ret.key, n)

\* C19: decryptString of the envelope encryptString produced for p, with the
\* same address and chain id, returns p, for every plaintext p (the empty
\* string and multi-byte strings included).
C19_CipherRoundTrip ==
    (/\ ret.op = "decryptString"
     /\ ret.sender = ret.value.encryptedBy
     /\ ret.value.chainId = ret.value.encryptedOn)
        => (ret.ok /\ ret.value.decrypted = ret.value.plaintext)

\* C20: decryptString of an envelope under an (address, chain id) that
\* derives a key other than the one it was encrypted under fails with
\* 'Decryption failed' and returns no plaintext, for every plaintext.
C20_WrongKeyFails ==
    (/\ ret.op = "decryptString"
     /\ deriveKeyFromAddress(AddressString(ret.value.encryptedBy),
                             ret.value.encryptedOn)
          # deriveKeyFromAddress(AddressString(ret.sender),
                                 ret.value.chainId))
        => (/\ ~ret.ok
            /\ ret.err = ErrOperation
            /\ ret.value.decrypted = << >>)

C20_Witness ==
    /\ ret.op = "decryptString"
    /\ ret.sender = ret.value.encryptedBy
    /\ ret.value.chainId # ret.value.encryptedOn
    /\ ret.value.plaintext = TextAccents
    /\ ~ret.ok

\* C21: decryptString, with the original address and chain id, of an
\* envelope produced by encryptString in which one character was replaced by
\* another fails and returns no plaintext.
C21_AlteredEnvelopeFails ==
    (/\ ret.op = "decryptString(altered)"
     /\ ret.value.at <= Len(ret.value.envelope))
        => (~ret.ok /\ ret.value.decrypted = << >>)

\* an input that does not split on ':' into exactly two fields of an even
\* number of hexadecimal digits each
IsHexField(field) ==
    /\ Len(field) % 2 = 0
    /\ \A i \in 1..Len(field) :
          field[i] \in (48..57) \cup (97..102) \cup (65..70)

IsMalformed(str) ==
    \/ Cardinality({i \in 1..Len(str) : str[i] = Colon}) # 1
    \/ LET at == CHOOSE i \in 1..Len(str) : str[i] = Colon
       IN  \/ ~IsHexField(SubSeq(str, 1, at - 1))
           \/ ~IsHexField(SubSeq(str, at + 1, Len(str)))

\* C22: decryptString fails with one of its two format errors, and so before
\* it decodes the fields and calls the cipher, whenever its input does not
\* split on ':' into exactly two fields of valid hex.
C22_MalformedEnvelopeRejected ==
    (/\ ret.op = "decryptString(altered)"
     /\ IsMalformed(ret.value.encryptedData))
        => (~ret.ok /\ ret.err \in {ErrMissingSeparator, ErrExpectedTwoParts})

\* C23 (as stated): across encryptions under the same derived key no nonce
\* value is used twice.
C23_Original ==
    [][ (/\ ret.op = "encryptString"
         /\ ret'.op = "encryptString"
         /\ ret'.sender = ret.sender
         /\ ret'.value.chainId = ret.value.chainId)
            => ret'.value.iv # ret.value.iv ]_vars

LowerHex == (48..57) \cup (97..102)

\* C23 (amended): every encryptString call uses as nonce the 12 bytes that
\* crypto.getRandomValues returned for that call, whatever the plaintext,
\* the key and the earlier calls are.
C23_NonceIsTheRandomDraw ==
    ret.op = "encryptString" =>
        /\ Len(ret.value.iv) = 12
        /\ Len(ret.value.envelope) > 24
        /\ \A i \in 1..12 :
              /\ ret.value.envelope[2 * i - 1] \in LowerHex
              /\ ret.value.envelope[2 * i] \in LowerHex
              /\ 16 * HexVal(ret.value.envelope[2 * i - 1])
                    + HexVal(ret.value.envelope[2 * i]) = ret.value.iv[i]

C23_Witness ==
    /\ ret.op = "encryptString"
    /\ ret.value.iv = IvB
    /\ ret.value.plaintext = TextOk
    /\ SubSeq(ret.value.envelope, 1, 4) = <<49, 51, 50, 51>>

\* C28: every envelope encryptString returns is 24 lower-case hex
\* characters, one ':', then an even number, at least 32, of lower-case hex
\* characters, with no other character; decryptString never rejects such an
\* envelope with a format error.
C28_WireFormat ==
    /\ ret.op = "encryptString" =>
          LET e == ret.value.envelope
          IN  /\ Len(e) >= 24 + 1 + 32
              /\ \A i \in 1..24 : e[i] \in LowerHex
              /\ e[25] = 58
              /\ \A i \in 26..Len(e) : e[i] \in LowerHex
              /\ (Len(e) - 25) % 2 = 0
              /\ Len(e) - 25 =
                    2 * (Len(stringToArrayBuffer(ret.value.plaintext)) + 16)
    /\ ret.op = "decryptString" =>
          ret.err \notin {ErrMissingSeparator, ErrExpectedTwoParts}

C28_Witness ==
    /\ ret.op = "decryptString"
    /\ ret.ok
    /\ ret.value.plaintext = TextEmoji
    /\ Len(ret.value.encryptedData) = 24 + 1 + 2 * (4 + 16)
    /\ ret.value.encryptedData[25] = 58

\* the identity an address string spells: lower case, without the prefix
CanonicalIdentity(address) ==
    LET lower == [i \in 1..Len(address) |->
                    IF address[i] \in 65..90 THEN address[i] + 32
                    ELSE address[i]]
    IN  IF Len(lower) >= 2 /\ lower[1] = 48 /\ lower[2] = 120
        THEN SubSeq(lower, 3, Len(lower)) ELSE lower

\* the pair of calls a state of KeySpec records
TwoDerivations ==
    ret.op = "deriveKeyFromAddress" /\ ret.value.before # << >>

\* C24: two calls of deriveKeyFromAddress with the same network and with
\* spellings of the same identity (equal, or differing in letter case or in
\* the 0x prefix) build the same key material and return the same key.
C24_DerivationCanonical ==
    (/\ TwoDerivations
     /\ CanonicalIdentity(ret.value.address) =
           CanonicalIdentity(ret.value.before[1].address)
     /\ ret.value.chainId = ret.value.before[1].chainId)
        => /\ ret.ok
           /\ ret.value.key = ret.value.before[1].key
           /\ ret.value.key.keyMaterial =
                 ret.value.before[1].key.keyMaterial

C24_Witness ==
    /\ TwoDerivations
    /\ ret.value.address = <<65, 49>>
    /\ ret.value.before[1].address = <<48, 120, 97, 49>>
    /\ ret.value.chainId = 31337
    /\ ret.value.key = ret.value.before[1].key

\* C25: two calls of deriveKeyFromAddress whose canonical identities or
\* networks differ never build the same key material, and so never return
\* the same key.
C25_KeySeparation ==
    (/\ TwoDerivations
     /\ \/ CanonicalIdentity(ret.value.address) #
              CanonicalIdentity(ret.value.before[1].address)
        \/ ret.value.chainId # ret.value.before[1].chainId)
        => /\ ret.value.key.keyMaterial #
                 ret.value.before[1].key.keyMaterial
           /\ ret.value.key # ret.value.before[1].key

\* an address that spells no byte string: empty, an odd number of digits,
\* or a character that is no hexadecimal digit
IsInvalidIdentity(address) ==
    LET identity == CanonicalIdentity(address)
    IN  \/ identity = << >>
        \/ Len(identity) % 2 = 1
        \/ \E i \in 1..Len(identity) :
              identity[i] \notin (48..57) \cup (97..102)

\* C26: deriveKeyFromAddress fails and produces no key when the identity is
\* not a well-formed byte string.
C26_InvalidIdentityRejected ==
    (ret.op = "deriveKeyFromAddress" /\ IsInvalidIdentity(ret.value.address))
        => ~ret.ok

\* C27: every derivation runs PBKDF2 with SHA-256, the fixed salt, a 256-bit
\* AES-GCM output and at least 100,000 iterations.
C27_IterationCount ==
    ret.op = "deriveKeyFromAddress" =>
        /\ ret.value.key.kdf = "PBKDF2"
        /\ ret.value.key.hash = "SHA-256"
        /\ ret.value.key.salt = "secure-device-maintenance-salt"
        /\ ret.value.key.name = "AES-GCM"
        /\ ret.value.key.length = 256
        /\ ret.value.key.iterations >= 100000

ClientReadOps ==
    {"useDeviceContract.getEncryptedRecords", "decryptDeviceRecords"}

\* C29: a client registerDevice, updateMaintenance, getEncryptedRecords or
\* decryptDeviceRecords whose contract call or decryption fails ends by
\* raising that error to its caller, never by returning a normal value.
C29_ErrorsSurface ==
    /\ (ret.op \in WriteOps /\ ~ret.ok) =>
          ret.err \in {ErrNotAuthorized, ErrDeviceExists, ErrDeviceMissing,
                       ErrEmptyNotes, ErrEmptyCalibration}
    /\ (ret.op \in ClientReadOps /\ ~ret.ok) =>
          ret.err \in {ErrNotAuthorized, ErrDeviceMissing}
                        \cup DecryptionErrors

\* both queries of the environment fail, or a step before them does
NothingFound(env) ==
    \/ ~env.addressValid
    \/ ~env.publicClient
    \/ ~env.blockNumberOk
    \/ (~env.getLogsOk /\ ~env.queryFilterOk)

\* C30: getAllDeviceIds never raises: whatever fails among address
\* validation, the block number query, getLogs and queryFilter, it returns
\* a list, the empty one when both queries fail or a step before them
\* does, and loadDevices does not fail.
C30_DiscoveryDegrades ==
    /\ ret.op = "getAllDeviceIds" =>
          /\ ret.ok
          /\ ret.value.deviceIds \in Seq(DeviceIds)
          /\ NothingFound(ret.value.env) => ret.value.deviceIds = << >>
    /\ ret.op = "loadDevices" =>
          /\ ret.ok
          /\ NothingFound(ret.value.env) =>
                /\ ret.value.eventDeviceIds = << >>
                /\ ret.value.allDeviceIds = ret.value.before

C30_Witness ==
    /\ ret.op = "loadDevices"
    /\ ret.ok
    /\ ret.value.env.addressValid
    /\ ret.value.env.publicClient
    /\ ret.value.env.blockNumberOk
    /\ ~ret.value.env.getLogsOk
    /\ ~ret.value.env.queryFilterOk
    /\ ret.value.env.logs = LogsTwoDevices
    /\ ret.value.allDeviceIds = <<"dev-002">>

\* C31: an id the user added by hand and has not removed is among the ids
\* every later loadDevices call queries, whatever event discovery returns:
\* a load started by Refresh queries all of them.
C31_ManualIdsPersist ==
    [][ Refresh =>
          \A e \in DiscoveryResults :
              index.byHand \subseteq
                  Range(AllDeviceIds(index'.loads[NextLoad], e)) ]_vars

\* C36: the loadDevices call started by adding the manual id x queries x,
\* whatever event discovery returns.
C36_AddTakesEffect ==
    [][ \A x \in DeviceIds :
          AddManualDeviceId(x) =>
              \A e \in DiscoveryResults :
                  x \in Range(AllDeviceIds(index'.loads[NextLoad], e)) ]_vars

\* C37: once no loadDevices call is in flight the displayed list was written
\* by the call that started last, and isLoading is false only when no call
\* is in flight.
C37_LatestLoadWins ==
    /\ ((\A l \in Loads : index.loads[l].pc = "idle")
            /\ index.shown # "none") => index.shown = "latest"
    /\ ~index.isLoading => \A l \in Loads : index.loads[l].pc = "idle"

C34_BusyFlagReleased ==
    adminPanel.isAuthorizing ~> ~adminPanel.isAuthorizing

\* C32: when several failure conditions hold at once registerDevice reports
\* the unauthorized caller before the existing id before the empty
\* ciphertext, updateMaintenance the unauthorized caller before the missing
\* record before the empty ciphertext, and getEncryptedRecords the
\* unauthorized caller before the missing record; the error an unauthorized
\* caller gets does not depend on whether the id exists.
C32_CheckOrder ==
    [][ /\ \A s \in TxSenders, id \in DeviceIds, a \in RegisterInputs :
              (/\ ret'.op = "registerDevice"
               /\ ret'.sender = s /\ ret'.key = id
               /\ registerDevice(s, id, a[1], a[2])) =>
                  /\ ~onlyAuthorized(s) => ret'.err = ErrNotAuthorized
                  /\ (onlyAuthorized(s) /\ devices[id].exists) =>
                        ret'.err = ErrDeviceExists
                  /\ (onlyAuthorized(s) /\ ~devices[id].exists
                        /\ HasEmpty(a[2])) => ret'.err \in EmptyErrs
        /\ \A s \in TxSenders, id \in DeviceIds, a \in UpdateInputs,
              t \in BlockTimes :
              (/\ ret'.op = "updateMaintenance"
               /\ ret'.sender = s /\ ret'.key = id
               /\ updateMaintenance(s, id, a[1], a[2], t)) =>
                  /\ ~onlyAuthorized(s) => ret'.err = ErrNotAuthorized
                  /\ (onlyAuthorized(s) /\ ~devices[id].exists) =>
                        ret'.err = ErrDeviceMissing
                  /\ (onlyAuthorized(s) /\ devices[id].exists
                        /\ HasEmpty(a[2])) => ret'.err \in EmptyErrs
        /\ \A s \in Addr, id \in DeviceIds :
              (/\ ret'.op = "getEncryptedRecords"
               /\ ret'.sender = s /\ ret'.key = id
               /\ getEncryptedRecords(s, id)) =>
                  /\ ~onlyAuthorized(s) => ret'.err = ErrNotAuthorized
                  /\ (onlyAuthorized(s) /\ ~devices[id].exists) =>
                        ret'.err = ErrDeviceMissing ]_vars

C32_Witness ==
    /\ ret.op = "getEncryptedRecords"
    /\ ~onlyAuthorized(ret.sender)
    /\ ~devices[ret.key].exists
    /\ ret.err = ErrNotAuthorized
    /\ \E id \in DeviceIds : devices[id].exists

ViewOps == {"isAuthorized", "getDeviceInfo", "getEncryptedRecords"}

\* C33: a grant or revoke changes only the entry of its target and no
\* record; a register or update changes only the record of its id and
\* neither the authorization table nor the owner; isAuthorized,
\* getDeviceInfo and getEncryptedRecords change nothing; a failing call
\* changes nothing.
C33_FrameConditions ==
    [][ /\ (ret'.op \in LedgerOps /\ ret'.ok) =>
              /\ \A a \in Addr \ {ret'.key} :
                    authorizedTechnicians'[a] = authorizedTechnicians[a]
              /\ devices' = devices
        /\ (ret'.op \in WriteOps /\ ret'.ok) =>
              /\ \A id \in DeviceIds \ {ret'.key} : devices'[id] = devices[id]
              /\ authorizedTechnicians' = authorizedTechnicians
              /\ owner' = owner
        /\ ret'.op \in ViewOps => UNCHANGED contractVars
        /\ ~ret'.ok => UNCHANGED contractVars ]_vars

C33_Witness ==
    /\ ret.op = "registerDevice"
    /\ ret.ok
    /\ \E id \in DeviceIds \ {ret.key} : devices[id].exists
    /\ \E a \in Addr \ {owner} : authorizedTechnicians[a]

\* 24 lower-case hex characters, one ':' and an even number of lower-case
\* hex characters
IsEnvelope(e) ==
    /\ Len(e) >= 2 * IvLength + 1
    /\ \A i \in 1..2 * IvLength : e[i] \in LowerHex
    /\ e[2 * IvLength + 1] = Colon
    /\ \A i \in 2 * IvLength + 2..Len(e) : e[i] \in LowerHex
    /\ (Len(e) - 2 * IvLength - 1) % 2 = 0

\* C38: bytesToEncryptedString(encryptedStringToBytes(e)) = e for every
\* envelope e of 24 lower-case hex characters, ':' and an even-length
\* lower-case hex body, and encryptedStringToBytes(bytesToEncryptedString(b))
\* = b for every byte array b of at least 12 bytes.
C38_HelpersMutuallyInverse ==
    /\ (ret.op = "encryptedStringToBytes"
            /\ IsEnvelope(ret.value.encryptedData)) =>
          /\ ret.value.back = ret.value.encryptedData
          /\ 2 * Len(ret.value.bytes) = Len(ret.value.encryptedData) - 1
    /\ (ret.op = "bytesToEncryptedString"
            /\ Len(ret.value.bytes) >= IvLength) =>
          /\ ret.value.back = ret.value.bytes
          /\ IsEnvelope(ret.value.encryptedData)

C38_Witness ==
    /\ ret.op = "encryptedStringToBytes"
    /\ IsEnvelope(ret.value.encryptedData)
    /\ ret.value.bytes = [i \in 1..IvLength |-> 159] \o <<171, 205>>
    /\ ret.value.back = ret.value.encryptedData

====
